---------------------------- MODULE Spec2Model ----------------------------
(***************************************************************************)
(* A model of the harmonic-analysis core of MusicalAI                      *)
(* (src/audio_analysis.py, class AudioAnalyzer): the Krumhansl-Schmuckler  *)
(* key estimator, the template chord estimator, the overlapping segment    *)
(* scan with its key-change events, and the pipeline that sequences them;  *)
(* of the upload handler analyze_audio (src/main.py); and of the range     *)
(* responses _serve_range_file and _file_chunker (src/audio_player.py).    *)
(*                                                                         *)
(* Numbers.  The code computes in IEEE doubles; the model computes in      *)
(* exact arithmetic.  A chroma value is a rational num/den (den > 0); a    *)
(* Pearson correlation r = s / sqrt(vx * vy) is kept as the exact triple   *)
(* (sign of s, s^2, vx * vy), so that "greater", "equal" and "undefined    *)
(* (NaN)" are decided exactly; integers wider than TLC's 32 bits are       *)
(* sequences of limbs.  Where the code hands a correlation on as a Python  *)
(* float (a confidence), the model hands on its truncation to a fixed      *)
(* point of Scale steps per unit.                                          *)
(*                                                                         *)
(* Text.  A Python str is a sequence of one-character strings, compared    *)
(* as Python compares it: by code point, then by length.                   *)
(***************************************************************************)
EXTENDS Integers, Sequences, FiniteSets, TLC

VARIABLES
    \* one call of detect_key_krumhansl_schmuckler_enhanced, and the same
    \* call on the input transposed by key_shift semitones
    key_chroma, key_shift, key_result, key_result_shifted, key_pc,
    \* one call of detect_chord_in_window_enhanced
    chroma_vector, chord_result, chord_pc,
    \* the analyzer's configuration (self.*): segment_length in hundredths
    \* of a second, overlap_ratio in quarters, the two thresholds in hundredths
    segment_length, overlap_ratio, min_chord_confidence, key_change_threshold,
    \* one call of analyze_segments_optimized: its arguments (duration in
    \* samples, that is in units of 1/sr seconds), its locals, its position
    chroma, duration, i, segmented_analysis, key_changes,
    previous_key, previous_confidence, scan_pc,
    \* one call of analyze_audio_file from the chroma matrix on: the matrix
    \* chroma_cqt returned, the locals, the returned dict, the position
    raw_chroma, global_key, key_confidence, global_chords, structure_analysis,
    harmonic_progressions, report, pipe_pc,
    \* one call of one of the other operations: its name, its matrix
    \* argument, its window_size argument, what it returned, the number of
    \* calls it made of KMeans.fit_predict, its position
    call_op, call_arg, call_size, call_result, kmeans_calls, call_pc,
    \* what the earlier calls of analyze_segments_optimized on the same
    \* analyzer returned, one entry per call
    earlier_run,
    \* one call of classify_progression (on two chord lists) or of
    \* analyze_harmonic_progressions (on a segment list): its name, its
    \* arguments, what it returned, its position
    prog_op, prog_chords1, prog_chords2, prog_segments, prog_result, prog_pc,
    \* one request to /api/analyze-audio (src/main.py, analyze_audio): the
    \* upload's content type and the length of its content, the temporary
    \* files on disk, the file object of the with statement and the local
    \* temp_file_path (each <<>> while unbound), the dict the analyzer
    \* returned, the response, the position
    content_type, content, temp_dir, temp_file, temp_file_path, analysis_result,
    response, upload_pc,
    \* one response of _serve_range_file (src/audio_player.py) and the run of
    \* its body iterator _file_chunker: the bytes of the file at path, the
    \* Range header, the chunk size, the locals start, end and status_code,
    \* the Content-Length header, the iterator's locals remaining and file
    \* position, the bytes yielded so far, the position
    file_bytes, range_header, chunk_size, start, end, status_code, content_length,
    remaining, f_pos, body, serve_pc

keyVars == <<key_chroma, key_shift, key_result, key_result_shifted, key_pc>>

chordVars == <<chroma_vector, chord_result, chord_pc>>

configVars == <<segment_length, overlap_ratio, min_chord_confidence, key_change_threshold>>

scanVars == <<chroma, duration, i, segmented_analysis, key_changes,
              previous_key, previous_confidence, scan_pc>>

pipeVars == <<raw_chroma, global_key, key_confidence, global_chords, structure_analysis,
              harmonic_progressions, report, pipe_pc>>

callVars == <<call_op, call_arg, call_size, call_result, kmeans_calls, call_pc,
              earlier_run>>

progVars == <<prog_op, prog_chords1, prog_chords2, prog_segments, prog_result, prog_pc>>

\* the state of the operations modelled after the single calls
uploadVars == <<content_type, content, temp_dir, temp_file, temp_file_path,
                analysis_result, response, upload_pc>>

serveVars == <<file_bytes, range_header, chunk_size, start, end, status_code,
               content_length, remaining, f_pos, body, serve_pc>>

restVars == <<progVars, uploadVars, serveVars>>

vars == <<keyVars, chordVars, configVars, scanVars, pipeVars, callVars, restVars>>

---------------------------------------------------------------------------
(* Bounds of the model *)

\* fixed-point steps per unit of a confidence handed on as a float
Scale == 1000
\* radix of the limbs of a wide integer
Base == 10000
\* frames of a chroma window given to the key estimator on its own
MaxKeyFrames == 2
\* frames of a chroma matrix given to the segment scan and to the pipeline
MaxFrames == 3
\* the longest file served, in bytes
MaxFileSize == 4

---------------------------------------------------------------------------
(* Wide non-negative integers: little-endian limbs, no leading zero limb *)

\* e, with the loop state x computed first: a pass of a loop runs on the
\* finished state of the pass before it
After(x, e) == IF x = x THEN e ELSE e

Abs(n) == IF n < 0 THEN -n ELSE n

\* the least element of a non-empty set of numbers
Least(S) == CHOOSE x \in S : \A y \in S : x <= y

Sgn(n) == IF n < 0 THEN -1 ELSE IF n > 0 THEN 1 ELSE 0

RECURSIVE BigOf(_)
BigOf(n) == IF n = 0 THEN <<>> ELSE <<n % Base>> \o BigOf(n \div Base)

RECURSIVE BigTrim(_)
BigTrim(a) ==
    IF a = <<>> THEN a
    ELSE IF a[Len(a)] = 0 THEN BigTrim(SubSeq(a, 1, Len(a) - 1)) ELSE a

RECURSIVE BigAdd(_, _, _)
BigAdd(a, b, c) ==
    IF a = <<>> /\ b = <<>> THEN BigOf(c)
    ELSE LET t == (IF a = <<>> THEN 0 ELSE a[1]) + (IF b = <<>> THEN 0 ELSE b[1]) + c
         IN  <<t % Base>> \o BigAdd(IF a = <<>> THEN a ELSE Tail(a),
                                     IF b = <<>> THEN b ELSE Tail(b), t \div Base)

\* a - b - c for a >= b + c, limbs not yet trimmed
RECURSIVE BigSubRaw(_, _, _)
BigSubRaw(a, b, c) ==
    IF a = <<>> THEN <<>>
    ELSE LET t == a[1] - (IF b = <<>> THEN 0 ELSE b[1]) - c
         IN  <<(t + Base) % Base>>
             \o BigSubRaw(Tail(a), IF b = <<>> THEN b ELSE Tail(b), IF t < 0 THEN 1 ELSE 0)

BigSub(a, b) == BigTrim(BigSubRaw(a, b, 0))

RECURSIVE BigMulLimb(_, _, _)
BigMulLimb(b, m, c) ==
    IF b = <<>> THEN BigOf(c)
    ELSE LET t == b[1] * m + c
         IN  <<t % Base>> \o BigMulLimb(Tail(b), m, t \div Base)

RECURSIVE BigMul(_, _)
BigMul(a, b) ==
    IF a = <<>> \/ b = <<>> THEN <<>>
    ELSE LET r == BigMul(Tail(a), b)
         IN  BigAdd(BigMulLimb(b, a[1], 0), IF r = <<>> THEN r ELSE <<0>> \o r, 0)

RECURSIVE BigCmpFrom(_, _, _)
BigCmpFrom(a, b, k) ==
    IF k = 0 THEN 0
    ELSE IF a[k] < b[k] THEN -1
    ELSE IF a[k] > b[k] THEN 1
    ELSE BigCmpFrom(a, b, k - 1)

\* -1, 0, 1 as a < b, a = b, a > b
BigCmp(a, b) ==
    IF Len(a) < Len(b) THEN -1
    ELSE IF Len(a) > Len(b) THEN 1
    ELSE BigCmpFrom(a, b, Len(a))

(* Wide signed integers: a sign and a magnitude *)

SOf(n) == [sg |-> Sgn(n), mag |-> BigOf(Abs(n))]

SMul(x, y) == [sg |-> x.sg * y.sg, mag |-> BigMul(x.mag, y.mag)]

SSub(x, y) ==
    IF y.sg = 0 THEN x
    ELSE IF x.sg = 0 THEN [sg |-> -y.sg, mag |-> y.mag]
    ELSE IF x.sg # y.sg THEN [sg |-> x.sg, mag |-> BigAdd(x.mag, y.mag, 0)]
    ELSE LET c == BigCmp(x.mag, y.mag)
         IN  IF c = 0 THEN [sg |-> 0, mag |-> <<>>]
             ELSE IF c > 0 THEN [sg |-> x.sg, mag |-> BigSub(x.mag, y.mag)]
             ELSE [sg |-> -x.sg, mag |-> BigSub(y.mag, x.mag)]

---------------------------------------------------------------------------
(* Real numbers of the form s / sqrt(v), v > 0, and NaN *)

NaN == [nan |-> TRUE, sg |-> 0, s2 |-> <<>>, vv |-> <<>>]

\* the integer n as such a number
RealOf(n) == [nan |-> FALSE, sg |-> Sgn(n), s2 |-> BigOf(n * n), vv |-> BigOf(1)]

\* -1, 0, 1 as x < y, x = y, x > y; neither is NaN
RealCmp(x, y) ==
    IF x.sg # y.sg THEN (IF x.sg < y.sg THEN -1 ELSE 1)
    ELSE x.sg * BigCmp(BigMul(x.s2, y.vv), BigMul(y.s2, x.vv))

\* the greatest q in lo..hi with q^2 * den <= num
RECURSIVE FloorSearch(_, _, _, _)
FloorSearch(lo, hi, num, den) ==
    IF lo >= hi THEN lo
    ELSE LET mid == (lo + hi + 1) \div 2
         IN  IF BigCmp(BigMul(BigOf(mid * mid), den), num) <= 0
             THEN FloorSearch(mid, hi, num, den)
             ELSE FloorSearch(lo, mid - 1, num, den)

\* float(x) for |x| <= 1, in steps of 1/Scale, truncated towards zero
ToFixed(x) ==
    x.sg * FloorSearch(0, Scale, BigMul(BigOf(Scale * Scale), x.s2), x.vv)

---------------------------------------------------------------------------
(* Vectors of 12 pitch classes: tuples, pitch class p at index p + 1 *)

PitchClasses == 1..12

\* np.sum of a 12-vector
Sum(v) ==
    v[1] + v[2] + v[3] + v[4] + v[5] + v[6] + v[7] + v[8] + v[9] + v[10] + v[11] + v[12]

\* a 12-vector given by its entries, as a tuple
Vec(f) == <<f[1], f[2], f[3], f[4], f[5], f[6], f[7], f[8], f[9], f[10], f[11], f[12]>>

Dot(a, b) == Sum(Vec([k \in PitchClasses |-> a[k] * b[k]]))

\* 12 * d - sa * sb as a wide signed integer
Lin12(d, sa, sb) ==
    IF Abs(d) <= 100000000 /\ Abs(sa) <= 30000 /\ Abs(sb) <= 30000
    THEN SOf(12 * d - sa * sb)
    ELSE SSub(SMul(SOf(12), SOf(d)), SMul(SOf(sa), SOf(sb)))

\* 12 * sum(a*b) - sum(a) * sum(b): 144 times the covariance np.cov forms
CoMoment(a, b) == Lin12(Dot(a, b), Sum(a), Sum(b))

\* a vector with its sum and 144 times its variance
Moments(a) == [vec |-> a, sum |-> Sum(a), var |-> CoMoment(a, a)]

\* np.roll(v, n): the entry at index k moves to index k + n, circularly
roll(v, n) == Vec([k \in PitchClasses |-> v[((k - 1 - n + 12) % 12) + 1]])

\* np.corrcoef(a, b)[0, 1] of two vectors given by their numerators over
\* positive denominators, which cancel: NaN when either has zero variance
Pearson(ma, mb) ==
    IF ma.var.sg = 0 \/ mb.var.sg = 0 THEN NaN
    ELSE LET s == Lin12(Dot(ma.vec, mb.vec), ma.sum, mb.sum)
         IN  [nan |-> FALSE, sg |-> s.sg, s2 |-> BigMul(s.mag, s.mag),
              vv |-> BigMul(ma.var.mag, mb.var.mag)]

corrcoef(a, b) == Pearson(Moments(a), Moments(b))

---------------------------------------------------------------------------
(* Python str values *)

\* ord() of the characters the labels use
Ord(c) ==
    CASE c = " " -> 32 [] c = "#" -> 35
      [] c = "2" -> 50 [] c = "4" -> 52 [] c = "6" -> 54 [] c = "7" -> 55 [] c = "9" -> 57
      [] c = "A" -> 65 [] c = "B" -> 66 [] c = "C" -> 67 [] c = "D" -> 68
      [] c = "E" -> 69 [] c = "F" -> 70 [] c = "G" -> 71
      [] c = "a" -> 97 [] c = "d" -> 100 [] c = "e" -> 101 [] c = "g" -> 103
      [] c = "i" -> 105 [] c = "j" -> 106 [] c = "m" -> 109 [] c = "n" -> 110
      [] c = "o" -> 111 [] c = "r" -> 114 [] c = "s" -> 115 [] c = "u" -> 117

\* -1, 0, 1 as s < t, s = t, s > t in Python's str order
RECURSIVE StrCmp(_, _)
StrCmp(s, t) ==
    IF s = <<>> THEN (IF t = <<>> THEN 0 ELSE -1)
    ELSE IF t = <<>> THEN 1
    ELSE IF Ord(s[1]) < Ord(t[1]) THEN -1
    ELSE IF Ord(s[1]) > Ord(t[1]) THEN 1
    ELSE StrCmp(Tail(s), Tail(t))

---------------------------------------------------------------------------
(* AudioAnalyzer.__init__: the fixed tables *)

note_names ==
    << <<"C">>, <<"C", "#">>, <<"D">>, <<"D", "#">>, <<"E">>, <<"F">>,
       <<"F", "#">>, <<"G">>, <<"G", "#">>, <<"A">>, <<"A", "#">>, <<"B">> >>

\* in hundredths
major_profile == <<635, 223, 348, 233, 438, 409, 252, 519, 239, 366, 229, 288>>

\* in hundredths
minor_profile == <<633, 268, 352, 538, 260, 353, 254, 475, 398, 269, 334, 317>>

---------------------------------------------------------------------------
(* A chroma matrix m: [cols |-> the frames, each a 12-vector of numerators, *)
(*                     den  |-> their common positive denominator]          *)

NFrames(m) == Len(m.cols)

\* m[:, a:b], Python slice bounds (0-based, b exclusive, clipped)
Slice(m, a, b) ==
    [cols |-> SubSeq(m.cols, a + 1, IF b < NFrames(m) THEN b ELSE NFrames(m)),
     den  |-> m.den]

\* np.linspace(0.8, 1.2, n)[j], j = 0..n-1, as a numerator over LinspaceDen(n)
LinspaceNum(n, j) == IF n = 1 THEN 4 ELSE 4 * (n - 1) + 2 * j

LinspaceDen(n) == IF n = 1 THEN 5 ELSE 5 * (n - 1)

RECURSIVE WeightedRowSum(_, _, _)
WeightedRowSum(cols, p, j) ==
    IF j = 0 THEN 0
    ELSE cols[j][p] * LinspaceNum(Len(cols), j - 1) + WeightedRowSum(cols, p, j - 1)

\* WeightedMean with the linspace weights laid along the pitch-class axis
\* (one weight per row) instead of along the frames
WeightedMeanAlongRows(m) ==
    [num |-> Vec([p \in PitchClasses |->
                    LinspaceNum(12, p - 1) * WeightedRowSum(m.cols, p, NFrames(m))]),
     den |-> m.den * LinspaceDen(12) * LinspaceDen(NFrames(m)) * NFrames(m)]

\* np.mean(m * weights, axis=1) as [num, den]
WeightedMean(m) ==
    [num |-> Vec([p \in PitchClasses |-> WeightedRowSum(m.cols, p, NFrames(m))]),
     den |-> m.den * LinspaceDen(NFrames(m)) * NFrames(m)]

\* v / np.sum(v) if np.sum(v) > 0, else v unchanged
NormalizeProfile(v) ==
    IF Sum(v.num) > 0 THEN [num |-> v.num, den |-> Sum(v.num)] ELSE v

\* template / np.sum(template), the template given in hundredths
NormalizeTemplate(t) == [num |-> t, den |-> Sum(t)]

---------------------------------------------------------------------------
(* detect_key_krumhansl_schmuckler_enhanced *)

maior == <<" ", "m", "a", "i", "o", "r">>

menor == <<" ", "m", "e", "n", "o", "r">>

\* the loop's candidate number c = 1..24: root (c-1) \div 2, major first
CandRoot(c) == (c - 1) \div 2

CandMajor(c) == c % 2 = 1

\* f"{self.note_names[i]} maior" / f"{self.note_names[i]} menor"
KeyLabel(r, isMajor) == note_names[r + 1] \o (IF isMajor THEN maior ELSE menor)

\* major_corr / minor_corr of candidate c for the normalized profile
KeyCorr(profile, c) ==
    corrcoef(profile.num,
             NormalizeTemplate(roll(IF CandMajor(c) THEN major_profile ELSE minor_profile,
                                    CandRoot(c))).num)

\* the list `correlations` after the loop: (corr, label) pairs, NaN skipped
KeyCorrelations(profile) ==
    LET all == [c \in 1..24 |-> <<KeyCorr(profile, c), KeyLabel(CandRoot(c), CandMajor(c))>>]
    IN  SelectSeq(all, LAMBDA t : ~t[1].nan)

\* Python's order on (float, str) tuples: -1, 0, 1
TupleCmp(t, u) ==
    LET c == RealCmp(t[1], u[1]) IN IF c # 0 THEN c ELSE StrCmp(t[2], u[2])

\* correlations.sort(reverse=True); correlations[0]: the index of the
\* greatest tuple among seq[lo..hi], found by halves
RECURSIVE Greatest(_, _, _)
Greatest(seq, lo, hi) ==
    IF lo = hi THEN lo
    ELSE LET mid    == (lo + hi) \div 2
             first  == Greatest(seq, lo, mid)
             second == Greatest(seq, mid + 1, hi)
         IN  After(<<first, second>>,
                   IF TupleCmp(seq[second], seq[first]) > 0 THEN second ELSE first)

SortReverseFirst(seq) == seq[Greatest(seq, 1, Len(seq))]

\* the call's outcome: raised (IndexError on the empty list), or the pair
\* (best_key, float(best_correlation)); corr keeps best_correlation exactly
detect_key_krumhansl_schmuckler_enhanced(m) ==
    LET chroma_mean  == NormalizeProfile(WeightedMean(m))
        correlations == KeyCorrelations(chroma_mean)
    IN  IF correlations = <<>>
        THEN [raised |-> TRUE, key |-> <<>>, confidence |-> 0, corr |-> NaN]
        ELSE LET first == SortReverseFirst(correlations)
             IN  [raised |-> FALSE, key |-> first[2], confidence |-> ToFixed(first[1]),
                  corr |-> first[1]]

---------------------------------------------------------------------------
(* detect_chord_in_window_enhanced and calculate_weighted_correlation *)

\* Python's None
None == <<"None">>

\* bool(x) of a str or None
Truthy(x) == x # None /\ x # <<>>

major == <<"m", "a", "j", "o", "r">>

\* self.chord_templates in its declared (dict insertion) order, in tenths
chord_templates ==
    << [chord_type |-> major,
        template |-> <<10, 0, 0, 0, 8, 0, 0, 9, 0, 0, 0, 0>>],
       [chord_type |-> <<"m", "i", "n", "o", "r">>,
        template |-> <<10, 0, 0, 8, 0, 0, 0, 9, 0, 0, 0, 0>>],
       [chord_type |-> <<"d", "i", "m">>,
        template |-> <<10, 0, 0, 8, 0, 0, 7, 0, 0, 0, 0, 0>>],
       [chord_type |-> <<"a", "u", "g">>,
        template |-> <<10, 0, 0, 0, 8, 0, 0, 0, 7, 0, 0, 0>>],
       [chord_type |-> <<"s", "u", "s", "2">>,
        template |-> <<10, 0, 7, 0, 0, 0, 0, 9, 0, 0, 0, 0>>],
       [chord_type |-> <<"s", "u", "s", "4">>,
        template |-> <<10, 0, 0, 0, 0, 7, 0, 9, 0, 0, 0, 0>>],
       [chord_type |-> <<"m", "a", "j", "7">>,
        template |-> <<10, 0, 0, 0, 8, 0, 0, 9, 0, 0, 0, 7>>],
       [chord_type |-> <<"m", "i", "n", "7">>,
        template |-> <<10, 0, 0, 8, 0, 0, 0, 9, 0, 0, 6, 0>>],
       [chord_type |-> <<"d", "o", "m", "7">>,
        template |-> <<10, 0, 0, 0, 8, 0, 0, 9, 0, 0, 7, 0>>],
       [chord_type |-> <<"d", "i", "m", "7">>,
        template |-> <<10, 0, 0, 8, 0, 0, 7, 0, 0, 6, 0, 0>>],
       [chord_type |-> <<"m", "a", "j", "9">>,
        template |-> <<10, 0, 6, 0, 8, 0, 0, 9, 0, 0, 0, 7>>],
       [chord_type |-> <<"m", "i", "n", "9">>,
        template |-> <<10, 0, 6, 8, 0, 0, 0, 9, 0, 0, 6, 0>>],
       [chord_type |-> <<"a", "d", "d", "9">>,
        template |-> <<10, 0, 5, 0, 8, 0, 0, 9, 0, 0, 0, 0>>],
       [chord_type |-> <<"m", "i", "n", "6">>,
        template |-> <<10, 0, 0, 8, 0, 0, 0, 9, 0, 6, 0, 0>>],
       [chord_type |-> <<"m", "a", "j", "6">>,
        template |-> <<10, 0, 0, 0, 8, 0, 0, 9, 0, 6, 0, 0>>] >>

NChordTypes == Len(chord_templates)

\* the per-pitch-class weights of calculate_weighted_correlation, in tenths
weights == <<10, 7, 8, 9, 10, 8, 7, 10, 8, 8, 7, 8>>

\* chroma * weights: the numerators, over ten times the denominator
Weighted(v) == Vec([k \in PitchClasses |-> v[k] * weights[k]])

WeightedMoments(v) == Moments(Weighted(v))

\* np.corrcoef(weighted_chroma1, weighted_chroma2)[0, 1], 0.0 in place of NaN
WeightedCorrelation(wm1, wm2) ==
    LET correlation == Pearson(wm1, wm2)
    IN  IF correlation.nan THEN RealOf(0) ELSE correlation

\* calculate_weighted_correlation of two vectors [num, den]
calculate_weighted_correlation(chroma1, chroma2) ==
    WeightedCorrelation(WeightedMoments(chroma1.num), WeightedMoments(chroma2.num))

\* the loop's candidate number c = 1..180: root (c-1) \div 15, then the
\* chord types in their declared order
ChordRoot(c) == (c - 1) \div NChordTypes

ChordType(c) == chord_templates[((c - 1) % NChordTypes) + 1]

\* ChordName with the suffix kept for major chords too
ChordNameKeepsMajor(root, chord_type) == note_names[root + 1] \o chord_type

\* f"{self.note_names[root]}{chord_type if chord_type != 'major' else ''}"
ChordName(root, chord_type) ==
    note_names[root + 1] \o (IF chord_type # major THEN chord_type ELSE <<>>)

\* np.roll(template, root) / its sum (positive for every template)
TransposedTemplate(c) ==
    LET transposed_template == roll(ChordType(c).template, ChordRoot(c))
    IN  IF Sum(transposed_template) > 0
        THEN [num |-> transposed_template, den |-> Sum(transposed_template)]
        ELSE [num |-> transposed_template, den |-> 10]

\* per candidate: its name and the weighted moments of its template
ChordCandidates ==
    [c \in 1..(12 * NChordTypes) |->
        [name    |-> ChordName(ChordRoot(c), ChordType(c).chord_type),
         moments |-> WeightedMoments(TransposedTemplate(c).num)]]

\* the score the loop computes for candidate c:
\* calculate_weighted_correlation(chroma_vector, transposed_template)
ChordScore(xm, c) == WeightedCorrelation(xm, ChordCandidates[c].moments)

\* ChordStep with `>=` in place of `>`: a later candidate of equal score
\* replaces the earlier one
ChordStepLastWins(xm, c, prev) ==
    LET correlation == ChordScore(xm, c)
    IN  IF ~correlation.nan /\ RealCmp(correlation, prev.best_score) >= 0
        THEN [best_match |-> ChordCandidates[c].name, best_score |-> correlation]
        ELSE prev

\* one pass of the loop body for candidate c on the state (best_match, best_score)
ChordStep(xm, c, prev) ==
    LET correlation == ChordScore(xm, c)
    IN  IF ~correlation.nan /\ RealCmp(correlation, prev.best_score) > 0
        THEN [best_match |-> ChordCandidates[c].name, best_score |-> correlation]
        ELSE prev

\* the two nested loops, as one loop over the candidates lo..hi in their
\* order (roots ascending, chord types in declared order within a root),
\* run on `state` as two halves one after the other
RECURSIVE ChordLoop(_, _, _, _)
ChordLoop(xm, lo, hi, state) ==
    IF lo = hi THEN ChordStep(xm, lo, state)
    ELSE LET mid   == (lo + hi) \div 2
             first == ChordLoop(xm, lo, mid, state)
         IN  After(first, ChordLoop(xm, mid + 1, hi, first))

\* detect_chord_in_window_enhanced with the guard np.sum(chroma_vector) != 0
detect_chord_nonzero_guard(v) ==
    IF Sum(v.num) # 0
    THEN LET xm == WeightedMoments(v.num)
             final == After(xm, ChordLoop(xm, 1, 12 * NChordTypes,
                                          [best_match |-> None, best_score |-> RealOf(-1)]))
         IN  [chord |-> final.best_match, confidence |-> ToFixed(final.best_score),
              score |-> final.best_score]
    ELSE [chord |-> None, confidence |-> 0, score |-> RealOf(0)]

\* the returned pair (chord, confidence) for a vector [num, den];
\* score keeps best_score exactly
detect_chord_in_window_enhanced(v) ==
    IF Sum(v.num) > 0
    THEN LET normalized == [num |-> v.num, den |-> Sum(v.num)]
             xm == WeightedMoments(normalized.num)
             final == After(xm, ChordLoop(xm, 1, 12 * NChordTypes,
                                          [best_match |-> None, best_score |-> RealOf(-1)]))
         IN  [chord      |-> final.best_match,
              confidence |-> IF Truthy(final.best_match) THEN ToFixed(final.best_score)
                             ELSE <<None, 0>>,
              score      |-> final.best_score]
    ELSE [chord |-> None, confidence |-> 0, score |-> RealOf(0)]

---------------------------------------------------------------------------
(* The chord scans detect_chords_in_segment_enhanced and                   *)
(* detect_chords_global_enhanced                                           *)

\* np.mean(m, axis=1) of a non-empty matrix, as [num, den]
RECURSIVE ColumnSum(_, _, _)
ColumnSum(cols, p, j) == IF j = 0 THEN 0 ELSE cols[j][p] + ColumnSum(cols, p, j - 1)

ColumnMean(m) ==
    [num |-> Vec([p \in PitchClasses |-> ColumnSum(m.cols, p, NFrames(m))]),
     den |-> m.den * NFrames(m)]

\* len(range(0, stop, step)) for step > 0
RangeLen(stop, step) == IF stop <= 0 THEN 0 ELSE (stop + step - 1) \div step

\* detected_chords after `if chord in detected_chords: += else: =`; the dict
\* is the sequence of its (chord, confidence) items in insertion order
DictAdd(detected_chords, chord, confidence) ==
    IF \E k \in 1..Len(detected_chords) : detected_chords[k].chord = chord
    THEN [k \in 1..Len(detected_chords) |->
            IF detected_chords[k].chord = chord
            THEN [chord |-> chord,
                  confidence |-> detected_chords[k].confidence + confidence]
            ELSE detected_chords[k]]
    ELSE Append(detected_chords, [chord |-> chord, confidence |-> confidence])

\* confidence > threshold, confidence in steps of 1/Scale, threshold in hundredths
Exceeds(confidence, threshold) == confidence * 100 > threshold * Scale

\* the body of the loop without the comparison with the threshold
ChordScanStepNoThreshold(detected_chords, found, nframes, threshold) ==
    IF nframes > 0 /\ Truthy(found.chord)
    THEN DictAdd(detected_chords, found.chord, found.confidence)
    ELSE detected_chords

\* the body of the loop for one window: detected_chords after the window
\* of nframes frames for which the estimator returned `found`
ChordScanStep(detected_chords, found, nframes, threshold) ==
    IF nframes > 0 /\ Truthy(found.chord) /\ Exceeds(found.confidence, threshold)
    THEN DictAdd(detected_chords, found.chord, found.confidence)
    ELSE detected_chords

\* window k of the scan: it starts at frame (k-1) * (window_size // 2)
ScanWindow(m, window_size, k) ==
    Slice(m, (k - 1) * (window_size \div 2), (k - 1) * (window_size \div 2) + window_size)

\* detected_chords after the first n windows of the scan over m
RECURSIVE ChordScan(_, _, _, _)
ChordScan(m, window_size, threshold, n) ==
    IF n = 0 THEN <<>>
    ELSE ChordScanStep(ChordScan(m, window_size, threshold, n - 1),
                       detect_chord_in_window_enhanced(
                           ColumnMean(ScanWindow(m, window_size, n))),
                       NFrames(ScanWindow(m, window_size, n)),
                       threshold)

\* sorted(items, key=lambda x: x[1], reverse=True): descending, and stable
SortedByConfidence(items) ==
    LET n == Len(items)
        Rank(j) == Cardinality({k \in 1..n : items[k].confidence > items[j].confidence})
                   + Cardinality({k \in 1..(j - 1) :
                                     items[k].confidence = items[j].confidence})
                   + 1
    IN  [r \in 1..n |-> items[CHOOSE j \in 1..n : Rank(j) = r]]

\* [chord for chord, _ in sorted_chords[:top]]
TopChords(items, top) ==
    LET sorted_chords == SortedByConfidence(items)
        n == IF Len(items) < top THEN Len(items) ELSE top
    IN  [r \in 1..n |-> sorted_chords[r].chord]

\* the chord list of a scan with the given window size, keeping `top` names
DetectChords(m, window_size, threshold, top) ==
    TopChords(ChordScan(m, window_size, threshold,
                        RangeLen(NFrames(m), window_size \div 2)), top)

\* sub_window_size = 11, the four most likely chords
detect_chords_in_segment_enhanced(segment_chroma, threshold) ==
    DetectChords(segment_chroma, 11, threshold, 4)

\* window_size = 22, the eight most likely chords
detect_chords_global_enhanced(m, threshold) ==
    DetectChords(m, 22, threshold, 8)

---------------------------------------------------------------------------
(* calculate_harmonic_stability and smooth_chroma *)

\* sum of squares of row p over the first j frames
RECURSIVE ColumnSquares(_, _, _)
ColumnSquares(cols, p, j) ==
    IF j = 0 THEN 0 ELSE cols[j][p] * cols[j][p] + ColumnSquares(cols, p, j - 1)

\* n^2 * den^2 times np.var of row p
RowVariance(m, p) ==
    NFrames(m) * ColumnSquares(m.cols, p, NFrames(m))
    - ColumnSum(m.cols, p, NFrames(m)) * ColumnSum(m.cols, p, NFrames(m))

\* 1.0 - np.mean(chroma_var) returned as it is, without the clamp
calculate_harmonic_stability_unclamped(m) ==
    [num |-> 12 * NFrames(m) * NFrames(m) * m.den * m.den
             - Sum(Vec([p \in PitchClasses |-> RowVariance(m, p)])),
     den |-> 12 * NFrames(m) * NFrames(m) * m.den * m.den]

\* max(0.0, min(1.0, 1.0 - np.mean(chroma_var))) as [num, den]
calculate_harmonic_stability(m) ==
    LET chroma_var == Vec([p \in PitchClasses |-> RowVariance(m, p)])
        den        == 12 * NFrames(m) * NFrames(m) * m.den * m.den
        stability  == den - Sum(chroma_var)
    IN  IF stability < 0 THEN [num |-> 0, den |-> den]
        ELSE IF stability > den THEN [num |-> den, den |-> den]
        ELSE [num |-> stability, den |-> den]

\* the default mode 'reflect' of uniform_filter1d: the frame (1-based) read
\* at offset k of a row of n frames, the row extended (d c b a | a b c d | d c b a)
Reflect(k, n) ==
    LET r == (k - 1) % (2 * n)
    IN  IF r < n THEN r + 1 ELSE 2 * n - r

\* smooth_chroma with mode='constant': the frames beyond the ends read as 0
smooth_chroma_constant_mode(m, window_size) ==
    LET n    == NFrames(m)
        half == window_size \div 2
        Inside(j) == {k \in 1..n : j - half <= k /\ k <= j - half + window_size - 1}
        RECURSIVE SumOver(_, _, _)
        SumOver(S, j, p) ==
            IF S = {} THEN 0
            ELSE m.cols[Least(S)][p] + SumOver(S \ {Least(S)}, j, p)
    IN  [cols |-> [j \in 1..n |->
                     Vec([p \in PitchClasses |-> SumOver(Inside(j), j, p)])],
         den  |-> m.den * window_size]

\* uniform_filter1d(m, size=window_size, axis=1): the mean over the window
\* centred on each frame
smooth_chroma(m, window_size) ==
    LET n    == NFrames(m)
        half == window_size \div 2
        Window(j, p, k) == m.cols[Reflect(j - half + k, n)][p]
        RECURSIVE WindowSum(_, _, _)
        WindowSum(j, p, k) ==
            IF k < 0 THEN 0 ELSE Window(j, p, k) + WindowSum(j, p, k - 1)
    IN  [cols |-> [j \in 1..n |->
                     Vec([p \in PitchClasses |-> WindowSum(j, p, window_size - 1)])],
         den  |-> m.den * window_size]

---------------------------------------------------------------------------
(* analyze_musical_structure, classify_progression and                     *)
(* analyze_harmonic_progressions                                           *)

\* segment_size = 44 frames
segment_size == 44

\* len(segments) with the blocks that run past the last frame counted too:
\* range(0, T, 22)
NFeatureVectorsWithPartial(m) == RangeLen(NFrames(m), segment_size \div 2)

\* len(segments): one feature vector per i in range(0, T - 44, 22)
NFeatureVectors(m) == RangeLen(NFrames(m) - segment_size, segment_size \div 2)

\* n_clusters with max in place of min
NClustersAtLeastFour(n) == IF n \div 2 < 4 THEN 4 ELSE n \div 2

\* n_clusters = min(4, len(segments) // 2)
NClusters(n) == IF n \div 2 < 4 THEN n \div 2 ELSE 4

section_names == <<"Intro", "Verso", "Refrao", "Ponte">>

\* the result when there are at most 3 feature vectors, or on any exception
NoStructure == [sections |-> <<>>, n_sections |-> 0, structure_confidence |-> 0]

\* the result dict; kmeans is the clustering collaborator's outcome for the
\* feature vectors: [raised, labels, centers_mean]; start_time is
\* i * segment_size * 512 / 2 in units of 1/22050 s
analyze_musical_structure(m, kmeans) ==
    LET n == NFeatureVectors(m)
    IN  IF n > 3
        THEN IF kmeans.raised THEN NoStructure
             ELSE [sections |->
                      [k \in 1..n |->
                         [section    |-> section_names[(kmeans.labels[k] % 4) + 1],
                          start_time |-> ((k - 1) * segment_size * 512) \div 2,
                          cluster_id |-> kmeans.labels[k]]],
                   n_sections |-> NClusters(n),
                   structure_confidence |-> kmeans.centers_mean]
        ELSE NoStructure

\* s.split(sep)[0]: the part of s before the first occurrence of sep
SplitFirst(s, sep) ==
    LET hits == {k \in 1..(Len(s) - Len(sep) + 1) : SubSeq(s, k, k + Len(sep) - 1) = sep}
    IN  IF hits = {} THEN s ELSE SubSeq(s, 1, Least(hits) - 1)

\* the stripping without its first step split('m')[0]
StripSuffixKeepsM(chord) == SplitFirst(SplitFirst(chord, <<"7">>), <<"d", "i", "m">>)

\* chord.split('m')[0].split('7')[0].split('dim')[0]
StripSuffix(chord) ==
    SplitFirst(SplitFirst(SplitFirst(chord, <<"m">>), <<"7">>), <<"d", "i", "m">>)

common_progressions ==
    << [key |-> << <<"C">>, <<"F">> >>,      value |-> "I-IV"],
       [key |-> << <<"C">>, <<"G">> >>,      value |-> "I-V"],
       [key |-> << <<"A", "m">>, <<"F">> >>, value |-> "vi-IV"],
       [key |-> << <<"F">>, <<"G">> >>,      value |-> "IV-V"],
       [key |-> << <<"G">>, <<"C">> >>,      value |-> "V-I"],
       [key |-> << <<"A", "m">>, <<"C">> >>, value |-> "vi-I"] >>

\* (root1, root2) in common_progressions
InTable(pair) == \E e \in 1..Len(common_progressions) : common_progressions[e].key = pair

\* common_progressions[(root1, root2)]
Lookup(pair) ==
    common_progressions[CHOOSE e \in 1..Len(common_progressions) :
                            common_progressions[e].key = pair].value

\* classify_progression with the loops exchanged: chords2 in the outer loop
classify_progression_to_list_first(chords1, chords2) ==
    LET Pair(a, b) == <<StripSuffix(chords1[a]), StripSuffix(chords2[b])>>
        outer == {b \in 1..Len(chords2) : \E a \in 1..Len(chords1) : InTable(Pair(a, b))}
    IN  IF outer = {} THEN "Progressao personalizada"
        ELSE LET b == Least(outer)
                 a == Least({c \in 1..Len(chords1) : InTable(Pair(c, b))})
             IN  Lookup(Pair(a, b))

\* the value of the first pair (chord1, chord2), chords1 in the outer loop
\* and chords2 in the inner, whose stripped roots are in the table
classify_progression(chords1, chords2) ==
    LET Pair(a, b) == <<StripSuffix(chords1[a]), StripSuffix(chords2[b])>>
        outer == {a \in 1..Len(chords1) : \E b \in 1..Len(chords2) : InTable(Pair(a, b))}
    IN  IF outer = {} THEN "Progressao personalizada"
        ELSE LET a == Least(outer)
                 b == Least({c \in 1..Len(chords2) : InTable(Pair(a, c))})
             IN  Lookup(Pair(a, b))

\* analyze_harmonic_progressions with `or` in place of `and` in its test
analyze_harmonic_progressions_either(segments) ==
    LET n == Len(segments)
        Link(k) ==
            [start_time       |-> segments[k].start_time,
             end_time         |-> segments[k + 1].end_time,
             from_chords      |-> segments[k].acordes_segmento,
             to_chords        |-> segments[k + 1].acordes_segmento,
             progression_type |-> classify_progression(segments[k].acordes_segmento,
                                                       segments[k + 1].acordes_segmento)]
        pairs == SelectSeq([k \in 1..(n - 1) |-> k],
                           LAMBDA k : segments[k].acordes_segmento # <<>>
                                      \/ segments[k + 1].acordes_segmento # <<>>)
    IN  [j \in 1..Len(pairs) |-> Link(pairs[j])]

\* one link per adjacent pair of segments whose chord lists are both non-empty
analyze_harmonic_progressions(segments) ==
    LET n == Len(segments)
        Link(k) ==
            [start_time       |-> segments[k].start_time,
             end_time         |-> segments[k + 1].end_time,
             from_chords      |-> segments[k].acordes_segmento,
             to_chords        |-> segments[k + 1].acordes_segmento,
             progression_type |-> classify_progression(segments[k].acordes_segmento,
                                                       segments[k + 1].acordes_segmento)]
        pairs == SelectSeq([k \in 1..(n - 1) |-> k],
                           LAMBDA k : segments[k].acordes_segmento # <<>>
                                      /\ segments[k + 1].acordes_segmento # <<>>)
    IN  [j \in 1..Len(pairs) |-> Link(pairs[j])]

---------------------------------------------------------------------------
(* The configuration __init__ stores, and the idle values of the state     *)
(* each specification below leaves alone                                   *)

\* segment_length = 3.0 s, in hundredths of a second
DefaultSegmentLength == 300

\* overlap_ratio = 0.5, in quarters
DefaultOverlapRatio == 2

\* min_chord_confidence = 0.65, in hundredths
DefaultMinChordConfidence == 65

\* key_change_threshold = 0.15, in hundredths
DefaultKeyChangeThreshold == 15

\* the attributes as __init__ sets them
DefaultConfig ==
    /\ segment_length = DefaultSegmentLength
    /\ overlap_ratio = DefaultOverlapRatio
    /\ min_chord_confidence = DefaultMinChordConfidence
    /\ key_change_threshold = DefaultKeyChangeThreshold

\* the result slot of a call not made yet
NoResult == [raised |-> FALSE, key |-> <<>>, confidence |-> 0, corr |-> NaN]

NoChordResult == [chord |-> <<>>, confidence |-> 0, score |-> NaN]

EmptyChroma == [cols |-> <<>>, den |-> 1]

KeyIdle ==
    /\ key_chroma = EmptyChroma
    /\ key_shift = 0
    /\ key_result = NoResult
    /\ key_result_shifted = NoResult
    /\ key_pc = "idle"

ChordIdle ==
    /\ chroma_vector = [num |-> <<>>, den |-> 1]
    /\ chord_result = NoChordResult
    /\ chord_pc = "idle"

ScanIdle ==
    /\ chroma = EmptyChroma
    /\ duration = 0
    /\ i = 0
    /\ segmented_analysis = <<>>
    /\ key_changes = <<>>
    /\ previous_key = None
    /\ previous_confidence = 0
    /\ scan_pc = "idle"

PipeIdle ==
    /\ raw_chroma = EmptyChroma
    /\ global_key = None
    /\ key_confidence = 0
    /\ global_chords = <<>>
    /\ structure_analysis = None
    /\ harmonic_progressions = <<>>
    /\ report = None
    /\ pipe_pc = "idle"

CallIdle ==
    /\ call_op = None
    /\ call_arg = EmptyChroma
    /\ call_size = 0
    /\ call_result = None
    /\ kmeans_calls = 0
    /\ call_pc = "idle"
    /\ earlier_run = <<>>

ProgIdle ==
    /\ prog_op = None
    /\ prog_chords1 = <<>>
    /\ prog_chords2 = <<>>
    /\ prog_segments = <<>>
    /\ prog_result = None
    /\ prog_pc = "idle"

\* a dict of the analyzer, as its keys and the value under 'tonalidade'
NoAnalysis == [keys |-> {}, tonalidade |-> <<>>]

NoResponse == [success |-> FALSE, analysis |-> {}, error |-> "no response"]

UploadIdle ==
    /\ content_type = None
    /\ content = 0
    /\ temp_dir = {}
    /\ temp_file = <<>>
    /\ temp_file_path = <<>>
    /\ analysis_result = NoAnalysis
    /\ response = NoResponse
    /\ upload_pc = "idle"

ServeIdle ==
    /\ file_bytes = <<>>
    /\ range_header = None
    /\ chunk_size = 0
    /\ start = 0
    /\ end = 0
    /\ status_code = 0
    /\ content_length = <<>>
    /\ remaining = 0
    /\ f_pos = 0
    /\ body = <<>>
    /\ serve_pc = "idle"

RestIdle == ProgIdle /\ UploadIdle /\ ServeIdle

---------------------------------------------------------------------------
(* Calls of the key estimator on a chroma window and on the same window    *)
(* with every column shifted circularly by key_shift semitones             *)

\* chroma columns in tenths: a C major triad, the single note C, the
\* tritone C + F#, an uneven spread, equal energy everywhere, silence
KeyColumns ==
    { <<10, 0, 0, 0, 8, 0, 0, 9, 0, 0, 0, 0>>,
      <<10, 0, 0, 0, 0, 0, 0, 0, 0, 0, 0, 0>>,
      <<10, 0, 0, 0, 0, 0, 10, 0, 0, 0, 0, 0>>,
      <<3, 1, 0, 2, 7, 0, 1, 5, 0, 2, 0, 1>>,
      <<1, 1, 1, 1, 1, 1, 1, 1, 1, 1, 1, 1>>,
      <<0, 0, 0, 0, 0, 0, 0, 0, 0, 0, 0, 0>> }

\* the sequences over S of length 1..n
SeqsUpTo(S, n) == UNION {[1..k -> S] : k \in 1..n}

KeyInputs == {[cols |-> c, den |-> 10] : c \in SeqsUpTo(KeyColumns, MaxKeyFrames)}

\* np.roll(chroma, n, axis=0): every column shifted by n pitch classes
RECURSIVE RollColumns(_, _)
RollColumns(cols, n) ==
    IF cols = <<>> THEN <<>>
    ELSE <<roll(Head(cols), n)>> \o RollColumns(Tail(cols), n)

RollRows(m, n) == [cols |-> RollColumns(m.cols, n), den |-> m.den]

KeyInit ==
    /\ key_chroma \in KeyInputs
    /\ key_shift = 0
    /\ key_result = NoResult
    /\ key_result_shifted = NoResult
    /\ key_pc = "start"
    /\ ChordIdle /\ DefaultConfig /\ ScanIdle /\ PipeIdle /\ CallIdle /\ RestIdle

\* detect_key_krumhansl_schmuckler_enhanced(key_chroma)
KeyCall ==
    /\ key_pc = "start"
    /\ key_result' = detect_key_krumhansl_schmuckler_enhanced(key_chroma)
    /\ key_pc' = "called"
    /\ UNCHANGED <<key_chroma, key_shift, key_result_shifted>>
    /\ UNCHANGED <<chordVars, configVars, callVars, restVars, scanVars, pipeVars>>

\* the same call on the window shifted by n semitones
KeyCallShifted ==
    /\ key_pc = "called"
    /\ \E n \in 0..11 :
          /\ key_shift' = n
          /\ key_result_shifted' =
                 detect_key_krumhansl_schmuckler_enhanced(RollRows(key_chroma, n))
    /\ key_pc' = "done"
    /\ UNCHANGED <<key_chroma, key_result>>
    /\ UNCHANGED <<chordVars, configVars, callVars, restVars, scanVars, pipeVars>>

KeyNext == KeyCall \/ KeyCallShifted

SpecKey == KeyInit /\ [][KeyNext]_vars

---------------------------------------------------------------------------
(* Calls of the chord estimator on a chroma vector *)

\* the roots at which the templates are given as input
InputRoots == {0, 4, 7, 9}

\* a vector whose product with the weights is the same in every pitch class
WeightedConstant == <<252, 360, 315, 280, 252, 315, 360, 252, 315, 315, 360, 315>>

\* every template at the input roots; equal energy, a single note, a root
\* with its fifth, an uneven spread, the weighted-constant vector; silence
\* and vectors with
\* entries below zero whose sum is zero or negative
ChordVectors ==
    {roll(chord_templates[t].template, r) : t \in 1..NChordTypes, r \in InputRoots}
    \cup { <<1, 1, 1, 1, 1, 1, 1, 1, 1, 1, 1, 1>>,
           <<10, 0, 0, 0, 0, 0, 0, 0, 0, 0, 0, 0>>,
           <<10, 0, 0, 0, 0, 0, 0, 9, 0, 0, 0, 0>>,
           <<3, 1, 0, 2, 7, 0, 1, 5, 0, 2, 0, 1>>,
           WeightedConstant,
           <<0, 0, 0, 0, 0, 0, 0, 0, 0, 0, 0, 0>>,
           <<5, 0, 0, 0, -5, 0, 0, 0, 0, 0, 0, 0>>,
           <<10, 0, 0, 0, 8, 0, 0, -20, 0, 0, 0, 0>>,
           <<-10, 0, 0, 0, -8, 0, 0, -9, 0, 0, 0, 0>> }

ChordInit ==
    /\ chroma_vector \in {[num |-> v, den |-> 10] : v \in ChordVectors}
    /\ chord_result = NoChordResult
    /\ chord_pc = "start"
    /\ KeyIdle /\ DefaultConfig /\ ScanIdle /\ PipeIdle /\ CallIdle /\ RestIdle

\* detect_chord_in_window_enhanced(chroma_vector)
ChordCall ==
    /\ chord_pc = "start"
    /\ chord_result' = detect_chord_in_window_enhanced(chroma_vector)
    /\ chord_pc' = "done"
    /\ UNCHANGED chroma_vector
    /\ UNCHANGED <<keyVars, configVars, callVars, restVars, scanVars, pipeVars>>

ChordNext == ChordCall

SpecChord == ChordInit /\ [][ChordNext]_vars

---------------------------------------------------------------------------
(* analyze_segments_optimized(chroma, sr, hop_length, duration): one action *)
(* for the code before the loop, one per pass of the loop, one for the      *)
(* return.  Times are in units of 1/sr seconds.                             *)

\* librosa.load(file_path, sr=22050)
sr == 22050

hop_length == 512

\* int(self.segment_length * sr / hop_length)
frames_per_segment == (segment_length * sr) \div (100 * hop_length)

\* int(frames_per_segment * (1 - self.overlap_ratio))
hop_frames == (frames_per_segment * (4 - overlap_ratio)) \div 4

\* the stop of range(0, chroma.shape[1] - frames_per_segment + 1, hop_frames)
RangeStop == NFrames(chroma) - frames_per_segment + 1

Min(a, b) == IF a < b THEN a ELSE b

\* start_time = i * hop_length / sr with the whole seconds cut off, as
\* floor division would give it
StartTimeFloored(k) == ((k * hop_length) \div sr) * sr

\* start_time = i * hop_length / sr at frame k
StartTime(k) == k * hop_length

\* end_time = min((i + frames_per_segment) * hop_length / sr, duration)
EndTime(k) == Min((k + frames_per_segment) * hop_length, duration)

\* the change of confidence taken with its sign
SignedConfidenceChange(a, b) == a - b

\* abs(key_confidence - previous_confidence)
ConfidenceChange(a, b) == Abs(a - b)

\* the test without the comparison of the two labels
KeyChangeByConfidenceOnly(prev, key, change) ==
    Truthy(prev) /\ Exceeds(change, key_change_threshold)

\* previous_key and previous_key != segment_key and
\* abs(key_confidence - previous_confidence) > self.key_change_threshold
KeyChangeDetected(prev, key, change) ==
    Truthy(prev) /\ prev # key /\ Exceeds(change, key_change_threshold)

\* the lines before the loop with previous_key and previous_confidence
\* kept from one call to the next, as attributes of the analyzer would be
ScanBeginKeepsPrevious ==
    /\ scan_pc = "start"
    /\ segmented_analysis' = <<>>
    /\ key_changes' = <<>>
    /\ i' = 0
    /\ scan_pc' = IF hop_frames = 0 THEN "raised" ELSE "loop"
    /\ UNCHANGED <<chroma, duration, previous_key, previous_confidence>>
    /\ UNCHANGED <<keyVars, chordVars, configVars, callVars, restVars, pipeVars>>

\* the lines before the loop; range() raises ValueError on a zero step
ScanBegin ==
    /\ scan_pc = "start"
    /\ segmented_analysis' = <<>>
    /\ key_changes' = <<>>
    /\ previous_key' = None
    /\ previous_confidence' = 0
    /\ i' = 0
    /\ scan_pc' = IF hop_frames = 0 THEN "raised" ELSE "loop"
    /\ UNCHANGED <<chroma, duration>>
    /\ UNCHANGED <<keyVars, chordVars, configVars, callVars, restVars, pipeVars>>

\* the loop body at frame i once the three analyses of the segment have
\* answered; an exception of the key estimator leaves the function
ScanBody(estimate, segment_chords, harmonic_stability, confidence_change) ==
    IF estimate.raised
    THEN /\ scan_pc' = "raised"
         /\ UNCHANGED <<i, segmented_analysis, key_changes,
                        previous_key, previous_confidence>>
    ELSE /\ segmented_analysis' =
                Append(segmented_analysis,
                       [start_time             |-> StartTime(i),
                        end_time               |-> EndTime(i),
                        tonalidade_segmento    |-> estimate.key,
                        confianca_tonalidade   |-> estimate.confidence,
                        acordes_segmento       |-> segment_chords,
                        estabilidade_harmonica |-> harmonic_stability])
         /\ key_changes' =
                IF KeyChangeDetected(previous_key, estimate.key, confidence_change)
                THEN Append(key_changes,
                            [time              |-> StartTime(i),
                             from_key          |-> previous_key,
                             to_key            |-> estimate.key,
                             confidence_change |-> confidence_change])
                ELSE key_changes
         /\ previous_key' = estimate.key
         /\ previous_confidence' = estimate.confidence
         /\ i' = i + hop_frames
         /\ scan_pc' = "loop"

\* segment_chroma = chroma[:, i:i+frames_per_segment]
SegmentChroma == Slice(chroma, i, i + frames_per_segment)

\* the key estimate of the segment at frame i
SegmentEstimate == detect_key_krumhansl_schmuckler_enhanced(SegmentChroma)

\* one pass of the loop, at frame i
ScanStep ==
    /\ scan_pc = "loop"
    /\ i < RangeStop
    /\ IF NFrames(SegmentChroma) > 0
       THEN ScanBody(SegmentEstimate,
                     detect_chords_in_segment_enhanced(SegmentChroma, min_chord_confidence),
                     calculate_harmonic_stability(SegmentChroma),
                     ConfidenceChange(SegmentEstimate.confidence, previous_confidence))
       ELSE /\ i' = i + hop_frames
            /\ UNCHANGED <<segmented_analysis, key_changes, previous_key,
                           previous_confidence, scan_pc>>
    /\ UNCHANGED <<chroma, duration>>
    /\ UNCHANGED <<keyVars, chordVars, configVars, callVars, restVars, pipeVars>>

\* the range is exhausted: return segmented_analysis, key_changes
ScanReturn ==
    /\ scan_pc = "loop"
    /\ i >= RangeStop
    /\ scan_pc' = "returned"
    /\ UNCHANGED <<chroma, duration, i, segmented_analysis, key_changes,
                   previous_key, previous_confidence>>
    /\ UNCHANGED <<keyVars, chordVars, configVars, callVars, restVars, pipeVars>>

\* chroma columns in tenths: a C major triad, a G major triad, the single
\* note C, silence
ScanColumns ==
    { <<10, 0, 0, 0, 8, 0, 0, 9, 0, 0, 0, 0>>,
      <<0, 0, 9, 0, 0, 0, 0, 10, 0, 0, 0, 8>>,
      <<10, 0, 0, 0, 0, 0, 0, 0, 0, 0, 0, 0>>,
      <<0, 0, 0, 0, 0, 0, 0, 0, 0, 0, 0, 0>> }

ScanInputs == {[cols |-> c, den |-> 10] : c \in SeqsUpTo(ScanColumns, MaxFrames)}

\* len(y) for a signal of which chroma_cqt makes n frames: n = 1 + len(y) // 512
Durations(n) == {(n - 1) * hop_length, n * hop_length - 1}

\* (segment_length, overlap_ratio): segments of 1 and of 2 frames, end to
\* end and half overlapping, and the values __init__ sets
ScanConfigs ==
    { <<3, 0>>, <<3, 2>>, <<5, 0>>, <<5, 2>>,
      <<DefaultSegmentLength, DefaultOverlapRatio>> }

Init ==
    /\ chroma \in ScanInputs
    /\ duration \in Durations(NFrames(chroma))
    /\ \E c \in ScanConfigs : segment_length = c[1] /\ overlap_ratio = c[2]
    /\ min_chord_confidence = DefaultMinChordConfidence
    /\ key_change_threshold = DefaultKeyChangeThreshold
    /\ i = 0
    /\ segmented_analysis = <<>>
    /\ key_changes = <<>>
    /\ previous_key = None
    /\ previous_confidence = 0
    /\ scan_pc = "start"
    /\ KeyIdle /\ ChordIdle /\ PipeIdle /\ CallIdle /\ RestIdle

Next == ScanBegin \/ ScanStep \/ ScanReturn

Spec == Init /\ [][Next]_vars

\* the call has ended, and analyze_segments_optimized is called once more
\* on the same analyzer with the same arguments; earlier_run keeps what the
\* first call gave
ScanAgain ==
    /\ scan_pc \in {"returned", "raised"}
    /\ earlier_run = <<>>
    /\ earlier_run' = <<[outcome            |-> scan_pc,
                         segmented_analysis |-> segmented_analysis,
                         key_changes        |-> key_changes]>>
    /\ scan_pc' = "start"
    /\ UNCHANGED <<chroma, duration, i, segmented_analysis, key_changes,
                   previous_key, previous_confidence>>
    /\ UNCHANGED <<call_op, call_arg, call_size, call_result, kmeans_calls, call_pc>>
    /\ UNCHANGED <<keyVars, chordVars, configVars, pipeVars, restVars>>

NextTwice == ScanBegin \/ ScanStep \/ ScanReturn \/ ScanAgain

SpecTwice == Init /\ [][NextTwice]_vars

---------------------------------------------------------------------------
(* analyze_audio_file from the chroma matrix on: one action per statement  *)
(* of the try block, the segment scan running as the actions above, and    *)
(* the except clause that turns any exception into {'erro': str(e)}        *)

\* str(e) of the two exceptions the statements can raise
IndexErrorText == "list index out of range"

ValueErrorText == "range() arg 3 must not be zero"

\* chroma = self.smooth_chroma(chroma)
PipeSmooth ==
    /\ pipe_pc = "start"
    /\ chroma' = smooth_chroma(raw_chroma, 5)
    /\ pipe_pc' = "key"
    /\ UNCHANGED <<duration, i, segmented_analysis, key_changes, previous_key,
                   previous_confidence, scan_pc>>
    /\ UNCHANGED <<raw_chroma, global_key, key_confidence, global_chords,
                   structure_analysis, harmonic_progressions, report>>
    /\ UNCHANGED <<keyVars, chordVars, configVars, callVars, restVars>>

\* the statement once the key estimator has answered
PipeKeyBody(estimate) ==
    IF estimate.raised
    THEN /\ report' = [erro |-> IndexErrorText]
         /\ pipe_pc' = "done"
         /\ UNCHANGED <<global_key, key_confidence, scan_pc>>
    ELSE /\ global_key' = estimate.key
         /\ key_confidence' = estimate.confidence
         /\ scan_pc' = "start"
         /\ pipe_pc' = "segments"
         /\ UNCHANGED report

\* PipeGlobalKey with the key estimator weighting the frames in its
\* argument (chroma *= weights) instead of in a copy
PipeGlobalKeyWeightsInPlace ==
    /\ pipe_pc = "key"
    /\ PipeKeyBody(detect_key_krumhansl_schmuckler_enhanced(chroma))
    /\ chroma' = [cols |-> [j \in 1..NFrames(chroma) |->
                              Vec([p \in PitchClasses |->
                                     chroma.cols[j][p] * LinspaceNum(NFrames(chroma), j - 1)])],
                  den  |-> chroma.den * LinspaceDen(NFrames(chroma))]
    /\ UNCHANGED <<duration, i, segmented_analysis, key_changes, previous_key,
                   previous_confidence>>
    /\ UNCHANGED <<raw_chroma, global_chords, structure_analysis, harmonic_progressions>>
    /\ UNCHANGED <<keyVars, chordVars, configVars, callVars, restVars>>

\* global_key, key_confidence = self.detect_key_krumhansl_schmuckler_enhanced(chroma),
\* then the call of analyze_segments_optimized; or the except clause
PipeGlobalKey ==
    /\ pipe_pc = "key"
    /\ PipeKeyBody(detect_key_krumhansl_schmuckler_enhanced(chroma))
    /\ UNCHANGED <<chroma, duration, i, segmented_analysis, key_changes, previous_key,
                   previous_confidence>>
    /\ UNCHANGED <<raw_chroma, global_chords, structure_analysis, harmonic_progressions>>
    /\ UNCHANGED <<keyVars, chordVars, configVars, callVars, restVars>>

\* analyze_segments_optimized raised: the except clause
PipeScanRaised ==
    /\ pipe_pc = "segments"
    /\ scan_pc = "raised"
    /\ report' = [erro |-> IF hop_frames = 0 THEN ValueErrorText ELSE IndexErrorText]
    /\ pipe_pc' = "done"
    /\ UNCHANGED <<raw_chroma, global_key, key_confidence, global_chords,
                   structure_analysis, harmonic_progressions>>
    /\ UNCHANGED <<keyVars, chordVars, configVars, callVars, restVars, scanVars>>

\* global_chords = self.detect_chords_global_enhanced(chroma)
PipeGlobalChords ==
    /\ pipe_pc = "segments"
    /\ scan_pc = "returned"
    /\ global_chords' = detect_chords_global_enhanced(chroma, min_chord_confidence)
    /\ pipe_pc' = "structure"
    /\ UNCHANGED <<raw_chroma, global_key, key_confidence, structure_analysis,
                   harmonic_progressions, report>>
    /\ UNCHANGED <<keyVars, chordVars, configVars, callVars, restVars, scanVars>>

\* what KMeans(n_clusters, random_state=42, n_init=10).fit_predict can give
\* for n feature vectors: an exception, or labels and the mean of the centers
KMeansOutcomes(n) ==
    IF n > 3
    THEN {[raised |-> TRUE, labels |-> <<>>, centers_mean |-> 0]}
         \cup {[raised |-> FALSE, labels |-> l, centers_mean |-> c] :
                  l \in [1..n -> 0..(NClusters(n) - 1)], c \in {0, Scale \div 12}}
    ELSE {[raised |-> FALSE, labels |-> <<>>, centers_mean |-> 0]}

\* structure_analysis = self.analyze_musical_structure(chroma, beats)
PipeStructure ==
    /\ pipe_pc = "structure"
    /\ \E kmeans \in KMeansOutcomes(NFeatureVectors(chroma)) :
          structure_analysis' = analyze_musical_structure(chroma, kmeans)
    /\ pipe_pc' = "progressions"
    /\ UNCHANGED <<raw_chroma, global_key, key_confidence, global_chords,
                   harmonic_progressions, report>>
    /\ UNCHANGED <<keyVars, chordVars, configVars, callVars, restVars, scanVars>>

\* harmonic_progressions = self.analyze_harmonic_progressions(segmented_analysis)
\* and the return of the report (tempo, which does not come from the chroma
\* matrix, left out)
PipeReturn ==
    /\ pipe_pc = "progressions"
    /\ harmonic_progressions' = analyze_harmonic_progressions(segmented_analysis)
    /\ report' = [tonalidade_global          |-> global_key,
                  confianca_tonalidade       |-> key_confidence,
                  duracao                    |-> duration,
                  acordes_globais_detectados |-> global_chords,
                  analise_segmentada         |-> segmented_analysis,
                  mudancas_tonalidade        |-> key_changes,
                  estrutura_musical          |-> structure_analysis,
                  progressoes_harmonicas     |-> harmonic_progressions']
    /\ pipe_pc' = "done"
    /\ UNCHANGED <<raw_chroma, global_key, key_confidence, global_chords,
                   structure_analysis>>
    /\ UNCHANGED <<keyVars, chordVars, configVars, callVars, restVars, scanVars>>

\* chroma columns in tenths: a C major triad, a G major triad, silence
PipeColumns ==
    { <<10, 0, 0, 0, 8, 0, 0, 9, 0, 0, 0, 0>>,
      <<0, 0, 9, 0, 0, 0, 0, 10, 0, 0, 0, 8>>,
      <<0, 0, 0, 0, 0, 0, 0, 0, 0, 0, 0, 0>> }

PipeInputs == {[cols |-> c, den |-> 10] : c \in SeqsUpTo(PipeColumns, MaxFrames)}

\* (segment_length, overlap_ratio): the values __init__ sets, and segments
\* of 2 frames and of 1 frame at the same overlap
PipeConfigs ==
    { <<DefaultSegmentLength, DefaultOverlapRatio>>, <<5, DefaultOverlapRatio>>,
      <<3, DefaultOverlapRatio>> }

PipeInit ==
    /\ raw_chroma \in PipeInputs
    /\ duration \in Durations(NFrames(raw_chroma))
    /\ \E c \in PipeConfigs : segment_length = c[1] /\ overlap_ratio = c[2]
    /\ min_chord_confidence = DefaultMinChordConfidence
    /\ key_change_threshold = DefaultKeyChangeThreshold
    /\ chroma = EmptyChroma
    /\ i = 0
    /\ segmented_analysis = <<>>
    /\ key_changes = <<>>
    /\ previous_key = None
    /\ previous_confidence = 0
    /\ scan_pc = "idle"
    /\ global_key = None
    /\ key_confidence = 0
    /\ global_chords = <<>>
    /\ structure_analysis = None
    /\ harmonic_progressions = <<>>
    /\ report = None
    /\ pipe_pc = "start"
    /\ KeyIdle /\ ChordIdle /\ CallIdle /\ RestIdle

PipeNext ==
    \/ PipeSmooth \/ PipeGlobalKey
    \/ ScanBegin \/ ScanStep \/ ScanReturn
    \/ PipeScanRaised \/ PipeGlobalChords \/ PipeStructure \/ PipeReturn

SpecPipe == PipeInit /\ [][PipeNext]_vars

---------------------------------------------------------------------------
(* Single calls of the other operations of the analyzer, each on inputs of *)
(* its own: call_op names the operation, call_arg is its matrix argument   *)

\* n frames, all equal to the column col
Repeat(col, n) == [j \in 1..n |-> col]

\* columns in tenths: a C major triad, a G major triad, the single note C,
\* an uneven spread, silence
CallColumns ==
    { <<10, 0, 0, 0, 8, 0, 0, 9, 0, 0, 0, 0>>,
      <<0, 0, 9, 0, 0, 0, 0, 10, 0, 0, 0, 8>>,
      <<10, 0, 0, 0, 0, 0, 0, 0, 0, 0, 0, 0>>,
      <<3, 1, 0, 2, 7, 0, 1, 5, 0, 2, 0, 1>>,
      <<0, 0, 0, 0, 0, 0, 0, 0, 0, 0, 0, 0>> }

\* the frames of matrices of three windows of a chord scan: n frames of a
\* triad, n frames of the notes C and C# together, and a last frame
ThreeWindows(n) ==
    {Repeat(a, n) \o Repeat(<<10, 10, 0, 0, 0, 0, 0, 0, 0, 0, 0, 0>>, n) \o <<c>> :
        a \in { <<10, 0, 0, 0, 8, 0, 0, 9, 0, 0, 0, 0>>,
                <<0, 0, 9, 0, 0, 0, 0, 10, 0, 0, 0, 8>> },
        c \in { <<10, 0, 0, 0, 0, 0, 10, 0, 0, 0, 0, 0>>,
                <<10, 0, 0, 0, 8, 0, 0, 9, 0, 0, 0, 0>> }}

\* the calls made.  For the two chord scans: matrices of one window (a
\* single frame), of two windows (the second one holding the last frame
\* alone) and of three windows (the third one holding the last frame
\* alone), under the threshold of __init__ and under a higher one.  For
\* analyze_musical_structure: matrices of 0 to 6 blocks of 44 frames, with
\* and without frames left over.  For smooth_chroma: matrices of 1 to
\* MaxFrames frames, with window sizes below 1, odd and even, up to and
\* beyond the number of frames.  For calculate_harmonic_stability: windows
\* of 1 to MaxFrames frames made of silence, a C major triad and a column
\* of 4.0 in every pitch class
CallInputs ==
    UNION {{[op |-> o[1], arg |-> [cols |-> Repeat(a, n - 1) \o <<b>>, den |-> 10],
             size |-> 0, threshold |-> t] :
               n \in {1, o[2]}, a \in CallColumns, b \in CallColumns,
               t \in {DefaultMinChordConfidence, 80}} :
           o \in {<<"detect_chords_in_segment_enhanced", 6>>,
                  <<"detect_chords_global_enhanced", 12>>}}
    \cup UNION {{[op |-> o[1], arg |-> [cols |-> c, den |-> 10],
                  size |-> 0, threshold |-> t] :
                    c \in ThreeWindows(o[2]), t \in {DefaultMinChordConfidence, 80}} :
                o \in {<<"detect_chords_in_segment_enhanced", 5>>,
                       <<"detect_chords_global_enhanced", 11>>}}
    \cup {[op |-> "analyze_musical_structure",
           arg |-> [cols |-> Repeat(<<10, 0, 0, 0, 8, 0, 0, 9, 0, 0, 0, 0>>, n), den |-> 10],
           size |-> 0, threshold |-> DefaultMinChordConfidence] :
             n \in {1, 43, 44, 45, 66, 87, 88, 109, 110, 111, 132, 133, 155}}
    \cup {[op |-> "smooth_chroma", arg |-> m, size |-> w,
           threshold |-> DefaultMinChordConfidence] :
             m \in PipeInputs \ {EmptyChroma}, w \in {-1, 0, 1, 2, 3, 5, 7}}
    \cup {[op |-> "calculate_harmonic_stability", arg |-> [cols |-> c, den |-> 10],
           size |-> 0, threshold |-> DefaultMinChordConfidence] :
             c \in SeqsUpTo({ <<0, 0, 0, 0, 0, 0, 0, 0, 0, 0, 0, 0>>,
                              <<10, 0, 0, 0, 8, 0, 0, 9, 0, 0, 0, 0>>,
                              <<40, 40, 40, 40, 40, 40, 40, 40, 40, 40, 40, 40>> },
                            MaxFrames) \ {<<>>}}

CallInit ==
    /\ \E c \in CallInputs :
          /\ call_op = c.op
          /\ call_arg = c.arg
          /\ call_size = c.size
          /\ min_chord_confidence = c.threshold
    /\ segment_length = DefaultSegmentLength
    /\ overlap_ratio = DefaultOverlapRatio
    /\ key_change_threshold = DefaultKeyChangeThreshold
    /\ call_result = None
    /\ kmeans_calls = 0
    /\ call_pc = "start"
    /\ earlier_run = <<>>
    /\ KeyIdle /\ ChordIdle /\ ScanIdle /\ PipeIdle /\ RestIdle

\* detect_chords_in_segment_enhanced(call_arg)
SegmentChordsCall ==
    /\ call_pc = "start"
    /\ call_op = "detect_chords_in_segment_enhanced"
    /\ call_result' = detect_chords_in_segment_enhanced(call_arg, min_chord_confidence)
    /\ call_pc' = "returned"
    /\ UNCHANGED <<call_op, call_arg, call_size, kmeans_calls, earlier_run>>
    /\ UNCHANGED <<keyVars, chordVars, configVars, scanVars, pipeVars, restVars>>

\* detect_chords_global_enhanced(call_arg)
GlobalChordsCall ==
    /\ call_pc = "start"
    /\ call_op = "detect_chords_global_enhanced"
    /\ call_result' = detect_chords_global_enhanced(call_arg, min_chord_confidence)
    /\ call_pc' = "returned"
    /\ UNCHANGED <<call_op, call_arg, call_size, kmeans_calls, earlier_run>>
    /\ UNCHANGED <<keyVars, chordVars, configVars, scanVars, pipeVars, restVars>>

\* analyze_musical_structure(call_arg, beats); KMeans is called when there
\* are more than 3 feature vectors, and whatever it raises is caught
StructureCall ==
    /\ call_pc = "start"
    /\ call_op = "analyze_musical_structure"
    /\ \E kmeans \in KMeansOutcomes(NFeatureVectors(call_arg)) :
          call_result' = analyze_musical_structure(call_arg, kmeans)
    /\ kmeans_calls' = IF NFeatureVectors(call_arg) > 3 THEN kmeans_calls + 1
                       ELSE kmeans_calls
    /\ call_pc' = "returned"
    /\ UNCHANGED <<call_op, call_arg, call_size, earlier_run>>
    /\ UNCHANGED <<keyVars, chordVars, configVars, scanVars, pipeVars, restVars>>

\* smooth_chroma(call_arg, call_size); uniform_filter1d raises
\* RuntimeError('incorrect filter size') for a size below 1
SmoothCall ==
    /\ call_pc = "start"
    /\ call_op = "smooth_chroma"
    /\ IF call_size < 1
       THEN call_pc' = "raised" /\ UNCHANGED call_result
       ELSE call_pc' = "returned" /\ call_result' = smooth_chroma(call_arg, call_size)
    /\ UNCHANGED <<call_op, call_arg, call_size, kmeans_calls, earlier_run>>
    /\ UNCHANGED <<keyVars, chordVars, configVars, scanVars, pipeVars, restVars>>

\* calculate_harmonic_stability(call_arg)
StabilityCall ==
    /\ call_pc = "start"
    /\ call_op = "calculate_harmonic_stability"
    /\ call_result' = calculate_harmonic_stability(call_arg)
    /\ call_pc' = "returned"
    /\ UNCHANGED <<call_op, call_arg, call_size, kmeans_calls, earlier_run>>
    /\ UNCHANGED <<keyVars, chordVars, configVars, scanVars, pipeVars, restVars>>

CallNext ==
    \/ SegmentChordsCall \/ GlobalChordsCall \/ StructureCall \/ SmoothCall
    \/ StabilityCall

SpecCalls == CallInit /\ [][CallNext]_vars

---------------------------------------------------------------------------
(* Single calls of classify_progression and analyze_harmonic_progressions  *)

\* the calls made.  For classify_progression: two lists of one or two of
\* the names C, G, F, Am, Aminor and Caug, and every label the chord
\* estimator can return followed by F and by C.  For
\* analyze_harmonic_progressions: lists of 0 to 3 segments, overlapping by
\* half as the scan emits them, each with no chord, one chord or two
ProgInputs ==
    LET names == { <<"C">>, <<"G">>, <<"F">>, <<"A", "m">>,
                   <<"A", "m", "i", "n", "o", "r">>, <<"C", "a", "u", "g">> }
        lists == SeqsUpTo(names, 2)
        chords == { <<>>, << <<"C">> >>, << <<"F">>, <<"G">> >> }
        Segment(k, c) == [start_time       |-> StartTime((k - 1) * 64),
                          end_time         |-> StartTime((k - 1) * 64 + 129),
                          acordes_segmento |-> c]
    IN  {[op |-> "classify_progression", chords1 |-> a, chords2 |-> b, segments |-> <<>>] :
            a \in lists, b \in lists}
        \cup {[op |-> "classify_progression",
               chords1 |-> <<ChordName(ChordRoot(c), ChordType(c).chord_type)>>,
               chords2 |-> b, segments |-> <<>>] :
                c \in 1..(12 * NChordTypes), b \in { << <<"F">> >>, << <<"C">> >> }}
        \cup {[op |-> "analyze_harmonic_progressions", chords1 |-> <<>>, chords2 |-> <<>>,
               segments |-> [k \in 1..Len(cs) |-> Segment(k, cs[k])]] :
                cs \in {<<>>} \cup SeqsUpTo(chords, 3)}

ProgInit ==
    /\ \E c \in ProgInputs :
          /\ prog_op = c.op
          /\ prog_chords1 = c.chords1
          /\ prog_chords2 = c.chords2
          /\ prog_segments = c.segments
    /\ prog_result = None
    /\ prog_pc = "start"
    /\ KeyIdle /\ ChordIdle /\ DefaultConfig /\ ScanIdle /\ PipeIdle /\ CallIdle
    /\ UploadIdle /\ ServeIdle

\* classify_progression(prog_chords1, prog_chords2)
ClassifyCall ==
    /\ prog_pc = "start"
    /\ prog_op = "classify_progression"
    /\ prog_result' = classify_progression(prog_chords1, prog_chords2)
    /\ prog_pc' = "returned"
    /\ UNCHANGED <<prog_op, prog_chords1, prog_chords2, prog_segments>>
    /\ UNCHANGED <<keyVars, chordVars, configVars, scanVars, pipeVars, callVars, uploadVars,
                   serveVars>>

\* analyze_harmonic_progressions(prog_segments)
ProgressionsCall ==
    /\ prog_pc = "start"
    /\ prog_op = "analyze_harmonic_progressions"
    /\ prog_result' = analyze_harmonic_progressions(prog_segments)
    /\ prog_pc' = "returned"
    /\ UNCHANGED <<prog_op, prog_chords1, prog_chords2, prog_segments>>
    /\ UNCHANGED <<keyVars, chordVars, configVars, scanVars, pipeVars, callVars, uploadVars,
                   serveVars>>

ProgNext == ClassifyCall \/ ProgressionsCall

SpecProg == ProgInit /\ [][ProgNext]_vars

---------------------------------------------------------------------------
(* src/main.py, analyze_audio: one request to /api/analyze-audio, one      *)
(* action per statement that can end or divert the handler.  The upload,   *)
(* the file system, the analyzer and the theory teacher are the            *)
(* environment: a read or a write may raise, the analyzer returns a dict    *)
(* with or without 'erro' (it catches its own exceptions), the teacher      *)
(* returns chords, returns an error dict or raises                          *)

\* max_size = 10 * 1024 * 1024
max_size == 10 * 1024 * 1024

\* s.startswith(prefix)
StartsWith(s, prefix) == Len(s) >= Len(prefix) /\ SubSeq(s, 1, Len(prefix)) = prefix

\* sub in s
Contains(s, sub) ==
    \E k \in 1..(Len(s) - Len(sub) + 1) : SubSeq(s, k, k + Len(sub) - 1) = sub

\* the name tempfile gives the file it creates
TempName == "tmp.wav"

\* the content types of the uploads: none, empty, audio/wav, audio/mpeg,
\* text/plain
ContentTypes ==
    { None, <<>>,
      <<"a", "u", "d", "i", "o", "/", "w", "a", "v">>,
      <<"a", "u", "d", "i", "o", "/", "m", "p", "e", "g">>,
      <<"t", "e", "x", "t", "/", "p", "l", "a", "i", "n">> }

\* the dicts analyze_audio_file returns: {'erro': ...}, or a report whose
\* 'tonalidade' is a major key, a minor key, or the "Indeterminado" of a
\* failed estimate
AnalysisResults ==
    {[keys |-> {"erro"}, tonalidade |-> <<>>]}
    \cup {[keys |-> {"tonalidade", "acordes_globais", "duracao"}, tonalidade |-> t] :
             t \in {KeyLabel(0, TRUE), KeyLabel(9, FALSE),
                    <<"I", "n", "d", "e", "t", "e", "r", "m", "i", "n", "a", "d", "o">>}}

UploadInit ==
    /\ content_type \in ContentTypes
    /\ content \in {0, 1, max_size, max_size + 1}
    /\ temp_dir = {}
    /\ temp_file = <<>>
    /\ temp_file_path = <<>>
    /\ analysis_result = NoAnalysis
    /\ response = NoResponse
    /\ upload_pc = "start"
    /\ KeyIdle /\ ChordIdle /\ DefaultConfig /\ ScanIdle /\ PipeIdle /\ CallIdle
    /\ ProgIdle /\ ServeIdle

\* lines 464-468: the content type test
UploadValidate ==
    /\ upload_pc = "start"
    /\ IF ~Truthy(content_type) \/ ~StartsWith(content_type, <<"a", "u", "d", "i", "o", "/">>)
       THEN /\ response' = [success |-> FALSE, analysis |-> {},
                            error |-> "Formato de arquivo nao suportado"]
            /\ upload_pc' = "returned"
       ELSE /\ upload_pc' = "with"
            /\ UNCHANGED response
    /\ UNCHANGED <<content_type, content, temp_dir, temp_file, temp_file_path,
                   analysis_result>>
    /\ UNCHANGED <<keyVars, chordVars, configVars, scanVars, pipeVars, callVars, progVars,
                   serveVars>>

\* line 475: NamedTemporaryFile(delete=False) creates the file on disk
UploadCreateTemp ==
    /\ upload_pc = "with"
    /\ temp_dir' = temp_dir \cup {TempName}
    /\ temp_file' = <<TempName>>
    /\ upload_pc' = "read"
    /\ UNCHANGED <<content_type, content, temp_file_path, analysis_result, response>>
    /\ UNCHANGED <<keyVars, chordVars, configVars, scanVars, pipeVars, callVars, progVars,
                   serveVars>>

\* lines 476-482: content = await file.read(), which may raise, and the
\* size test, whose return leaves the with block: the file is closed, and
\* kept, since delete=False
UploadRead ==
    /\ upload_pc = "read"
    /\ \E raised \in BOOLEAN :
          IF raised
          THEN upload_pc' = "except" /\ UNCHANGED response
          ELSE IF content > max_size
               THEN /\ response' = [success |-> FALSE, analysis |-> {},
                                    error |-> "Arquivo muito grande"]
                    /\ upload_pc' = "returned"
               ELSE upload_pc' = "write" /\ UNCHANGED response
    /\ UNCHANGED <<content_type, content, temp_dir, temp_file, temp_file_path,
                   analysis_result>>
    /\ UNCHANGED <<keyVars, chordVars, configVars, scanVars, pipeVars, callVars, progVars,
                   serveVars>>

\* lines 484-485: temp_file.write(content), which may raise, and
\* temp_file_path = temp_file.name
UploadWrite ==
    /\ upload_pc = "write"
    /\ \E raised \in BOOLEAN :
          IF raised
          THEN upload_pc' = "except" /\ UNCHANGED temp_file_path
          ELSE upload_pc' = "analyze" /\ temp_file_path' = temp_file
    /\ UNCHANGED <<content_type, content, temp_dir, temp_file, analysis_result, response>>
    /\ UNCHANGED <<keyVars, chordVars, configVars, scanVars, pipeVars, callVars, progVars,
                   serveVars>>

\* line 490: analysis_result = audio_analyzer.analyze_audio_file(temp_file_path)
UploadAnalyze ==
    /\ upload_pc = "analyze"
    /\ analysis_result' \in AnalysisResults
    /\ upload_pc' = "unlink"
    /\ UNCHANGED <<content_type, content, temp_dir, temp_file, temp_file_path, response>>
    /\ UNCHANGED <<keyVars, chordVars, configVars, scanVars, pipeVars, callVars, progVars,
                   serveVars>>

\* line 493: os.unlink(temp_file_path); FileNotFoundError if it is not there
UploadUnlink ==
    /\ upload_pc = "unlink"
    /\ IF temp_file_path[1] \in temp_dir
       THEN temp_dir' = temp_dir \ {temp_file_path[1]} /\ upload_pc' = "check"
       ELSE upload_pc' = "except" /\ UNCHANGED temp_dir
    /\ UNCHANGED <<content_type, content, temp_file, temp_file_path, analysis_result,
                   response>>
    /\ UNCHANGED <<keyVars, chordVars, configVars, scanVars, pipeVars, callVars, progVars,
                   serveVars>>

\* lines 496-525: the error of the analysis handed on, or the report, with
\* 'progressao_sugerida' added when the key is major or minor and the
\* teacher returned chords
UploadRespond ==
    /\ upload_pc = "check"
    /\ IF "erro" \in analysis_result.keys
       THEN /\ response' = [success |-> FALSE, analysis |-> {}, error |-> "erro"]
            /\ UNCHANGED analysis_result
       ELSE \E campo_harmonico \in {"acordes", "erro", "raised"} :
               /\ analysis_result' =
                     IF /\ "tonalidade" \in analysis_result.keys
                        /\ \/ Contains(analysis_result.tonalidade, <<"m", "a", "i", "o", "r">>)
                           \/ Contains(analysis_result.tonalidade, <<"m", "e", "n", "o", "r">>)
                        /\ campo_harmonico = "acordes"
                     THEN [analysis_result EXCEPT
                              !.keys = analysis_result.keys \cup {"progressao_sugerida"}]
                     ELSE analysis_result
               /\ response' = [success |-> TRUE, analysis |-> analysis_result'.keys,
                               error |-> "None"]
    /\ upload_pc' = "returned"
    /\ UNCHANGED <<content_type, content, temp_dir, temp_file, temp_file_path>>
    /\ UNCHANGED <<keyVars, chordVars, configVars, scanVars, pipeVars, callVars, progVars,
                   serveVars>>

\* lines 527-539: the except clause unlinks only when temp_file_path is a
\* local, and swallows what the unlink raises
UploadExcept ==
    /\ upload_pc = "except"
    /\ temp_dir' = IF temp_file_path # <<>> THEN temp_dir \ {temp_file_path[1]}
                   ELSE temp_dir
    /\ response' = [success |-> FALSE, analysis |-> {}, error |-> "Erro durante a analise"]
    /\ upload_pc' = "returned"
    /\ UNCHANGED <<content_type, content, temp_file, temp_file_path, analysis_result>>
    /\ UNCHANGED <<keyVars, chordVars, configVars, scanVars, pipeVars, callVars, progVars,
                   serveVars>>

UploadNext ==
    \/ UploadValidate \/ UploadCreateTemp \/ UploadRead \/ UploadWrite
    \/ UploadAnalyze \/ UploadUnlink \/ UploadRespond \/ UploadExcept

SpecUpload == UploadInit /\ [][UploadNext]_vars

---------------------------------------------------------------------------
(* src/audio_player.py: _serve_range_file(path, range_header), which       *)
(* builds the response, and _file_chunker(path, start, end, chunk_size),   *)
(* the iterator of its body, one action per chunk.  The file does not      *)
(* change while it is served                                               *)

\* s.split(sep) for a separator of one character
RECURSIVE split(_, _)
split(s, sep) ==
    LET hits == {k \in 1..Len(s) : s[k] = sep}
    IN  IF hits = {} THEN <<s>>
        ELSE <<SubSeq(s, 1, Least(hits) - 1)>>
             \o split(SubSeq(s, Least(hits) + 1, Len(s)), sep)

\* s.strip(), the white space being the space
RECURSIVE strip(_)
strip(s) ==
    IF s # <<>> /\ s[1] = " " THEN strip(Tail(s))
    ELSE IF s # <<>> /\ s[Len(s)] = " " THEN strip(SubSeq(s, 1, Len(s) - 1))
    ELSE s

Digits == <<"0", "1", "2", "3", "4", "5", "6", "7", "8", "9">>

DigitValue(c) == (CHOOSE d \in 1..10 : Digits[d] = c) - 1

\* the number a string of decimal digits denotes
RECURSIVE DecimalValue(_)
DecimalValue(s) ==
    IF s = <<>> THEN 0
    ELSE 10 * DecimalValue(SubSeq(s, 1, Len(s) - 1)) + DigitValue(s[Len(s)])

\* int(s): white space around, an optional sign, decimal digits; ValueError
\* for anything else
int(s) ==
    LET t == strip(s)
        signed == t # <<>> /\ t[1] \in {"+", "-"}
        u == IF signed THEN Tail(t) ELSE t
    IN  IF u # <<>> /\ \A k \in DOMAIN u : \E d \in 1..10 : Digits[d] = u[k]
        THEN [raised |-> FALSE,
              value  |-> IF signed /\ t[1] = "-" THEN -DecimalValue(u) ELSE DecimalValue(u)]
        ELSE [raised |-> TRUE, value |-> 0]

\* str(n) of an integer n >= 0
RECURSIVE str(_)
str(n) == IF n < 10 THEN <<Digits[n + 1]>> ELSE str(n \div 10) \o <<Digits[(n % 10) + 1]>>

\* file_size = path.stat().st_size
file_size == Len(file_bytes)

\* the test of line 265 without its second half
InvalidRangeStartOnly(s, e, n) == s > e

\* start > end or end >= file_size
InvalidRange(s, e, n) == s > e \/ e >= n

\* the try block of lines 257-266 on a header that starts with 'bytes=':
\* start and end, or raised for what becomes the 416
RangeBounds(header, n) ==
    LET range_spec == strip(split(header, "=")[2])
        parts == split(range_spec, "-")
        first == IF parts[1] # <<>> THEN int(parts[1]) ELSE [raised |-> FALSE, value |-> 0]
        last  == IF Len(parts) > 1 /\ parts[2] # <<>> THEN int(parts[2])
                 ELSE [raised |-> FALSE, value |-> n - 1]
    IN  IF first.raised \/ last.raised \/ InvalidRange(first.value, last.value, n)
        THEN [raised |-> TRUE, start |-> 0, end |-> n - 1]
        ELSE [raised |-> FALSE, start |-> first.value, end |-> last.value]

\* a file of n bytes, no two neighbours equal
FileBytes(n) == [k \in 1..n |-> (k * 37) % 256]

\* the Range headers sent: none, and strings with and without the prefix
\* 'bytes=', with one bound, two or three, open at either side, reversed,
\* beyond the end of the file, padded, signed, and not numeric
RangeHeaders ==
    { None,
      <<"b", "y", "t", "e", "s", "=">>,
      <<"b", "y", "t", "e", "s", "=", "0", "-">>,
      <<"b", "y", "t", "e", "s", "=", "0", "-", "1">>,
      <<"b", "y", "t", "e", "s", "=", "1", "-", "1">>,
      <<"b", "y", "t", "e", "s", "=", "2", "-">>,
      <<"b", "y", "t", "e", "s", "=", "-", "2">>,
      <<"b", "y", "t", "e", "s", "=", "1", "-", "0">>,
      <<"b", "y", "t", "e", "s", "=", "0", "-", "9">>,
      <<"b", "y", "t", "e", "s", "=", "9", "-">>,
      <<"b", "y", "t", "e", "s", "=", "a", "-", "1">>,
      <<"b", "y", "t", "e", "s", "=", "0", "-", "b">>,
      <<"b", "y", "t", "e", "s", "=", "0", "-", "1", "-", "x">>,
      <<"b", "y", "t", "e", "s", "=", " ", "0", "-", "1", " ">>,
      <<"b", "y", "t", "e", "s", "=", "+", "1", "-", "2">>,
      <<"b", "y", "t", "e", "s", "=", "1">>,
      <<"b", "y", "t", "e", "s", "=", "-">>,
      <<"b", "y", "t", "e", "s", "=", "3", "-", "3">>,
      <<"b", "y", "t", "e", "s", "=", "1", "-", "3">>,
      <<"i", "t", "e", "m", "s", "=", "0", "-", "1">>,
      <<"b", "y", "t", "e", "s">>,
      <<"b", "y", "t", "e", "s", "=", "0", "-", "1", "=", "2">>,
      <<>> }

ServeInit ==
    /\ file_bytes \in {FileBytes(n) : n \in 1..MaxFileSize}
    /\ range_header \in RangeHeaders
    /\ chunk_size \in {1, 2, 64 * 1024}
    /\ start = 0
    /\ end = 0
    /\ status_code = 0
    /\ content_length = <<>>
    /\ remaining = 0
    /\ f_pos = 0
    /\ body = <<>>
    /\ serve_pc = "start"
    /\ KeyIdle /\ ChordIdle /\ DefaultConfig /\ ScanIdle /\ PipeIdle /\ CallIdle
    /\ ProgIdle /\ UploadIdle

\* _serve_range_file, lines 251-281: the bounds, the status, the headers;
\* the iterator is made and not yet run
ServeRange ==
    /\ serve_pc = "start"
    /\ IF Truthy(range_header) /\ StartsWith(range_header, <<"b", "y", "t", "e", "s", "=">>)
       THEN LET bounds == RangeBounds(range_header, file_size)
            IN  IF bounds.raised
                THEN /\ status_code' = 416
                     /\ serve_pc' = "raised"
                     /\ UNCHANGED <<start, end, content_length>>
                ELSE /\ start' = bounds.start
                     /\ end' = bounds.end
                     /\ status_code' = 206
                     /\ content_length' = str(bounds.end - bounds.start + 1)
                     /\ serve_pc' = "response"
       ELSE /\ start' = 0
            /\ end' = file_size - 1
            /\ status_code' = 200
            /\ content_length' = str(file_size - 1 - 0 + 1)
            /\ serve_pc' = "response"
    /\ UNCHANGED <<file_bytes, range_header, chunk_size, remaining, f_pos, body>>
    /\ UNCHANGED <<keyVars, chordVars, configVars, scanVars, pipeVars, callVars, progVars,
                   uploadVars>>

\* _file_chunker, lines 240-242: open, f.seek(start), remaining
ChunkerOpen ==
    /\ serve_pc = "response"
    /\ f_pos' = start
    /\ remaining' = end - start + 1
    /\ serve_pc' = "loop"
    /\ UNCHANGED <<file_bytes, range_header, chunk_size, start, end, status_code,
                   content_length, body>>
    /\ UNCHANGED <<keyVars, chordVars, configVars, scanVars, pipeVars, callVars, progVars,
                   uploadVars>>

\* lines 243-249: one pass of the loop; f.read(read_size) returns the bytes
\* there are, at most read_size of them; no data ends the iterator
ChunkerStep ==
    /\ serve_pc = "loop"
    /\ remaining > 0
    /\ LET read_size == Min(chunk_size, remaining)
           data == SubSeq(file_bytes, f_pos + 1, Min(f_pos + read_size, file_size))
       IN  IF data = <<>>
           THEN /\ serve_pc' = "done"
                /\ UNCHANGED <<f_pos, body, remaining>>
           ELSE /\ f_pos' = f_pos + Len(data)
                /\ body' = body \o data
                /\ remaining' = remaining - Len(data)
                /\ UNCHANGED serve_pc
    /\ UNCHANGED <<file_bytes, range_header, chunk_size, start, end, status_code,
                   content_length>>
    /\ UNCHANGED <<keyVars, chordVars, configVars, scanVars, pipeVars, callVars, progVars,
                   uploadVars>>

\* line 243: remaining > 0 fails, the iterator is exhausted
ChunkerEnd ==
    /\ serve_pc = "loop"
    /\ remaining <= 0
    /\ serve_pc' = "done"
    /\ UNCHANGED <<file_bytes, range_header, chunk_size, start, end, status_code,
                   content_length, remaining, f_pos, body>>
    /\ UNCHANGED <<keyVars, chordVars, configVars, scanVars, pipeVars, callVars, progVars,
                   uploadVars>>

ServeNext == ServeRange \/ ChunkerOpen \/ ChunkerStep \/ ChunkerEnd

SpecServe == ServeInit /\ [][ServeNext]_vars

---------------------------------------------------------------------------
(* Properties of the segment scan, under Spec *)

\* the events emitted at the start time of segment k
EventsAt(k) ==
    {e \in 1..Len(key_changes) : key_changes[e].time = segmented_analysis[k].start_time}

\* the labels of segments k-1 and k differ
LabelsDiffer(k) ==
    segmented_analysis[k - 1].tonalidade_segmento
        # segmented_analysis[k].tonalidade_segmento

\* the confidences of segments k-1 and k differ by more than the threshold
ConfidenceJumps(k) ==
    Exceeds(Abs(segmented_analysis[k].confianca_tonalidade
                - segmented_analysis[k - 1].confianca_tonalidade),
            key_change_threshold)

\* C1: every emitted key-change event has from_key # to_key and a
\* confidence change strictly greater than key_change_threshold, and no
\* event is emitted for a segment whose label equals that of the segment
\* before it, whatever the change in confidence
C1_EventsNeedLabelAndConfidenceChange ==
    /\ \A e \in 1..Len(key_changes) :
          /\ key_changes[e].from_key # key_changes[e].to_key
          /\ Exceeds(key_changes[e].confidence_change, key_change_threshold)
    /\ \A k \in 2..Len(segmented_analysis) : ~LabelsDiffer(k) => EventsAt(k) = {}

\* an event was emitted, and a segment repeated the label of the one before
\* it with a confidence further than the threshold away
C1_Witness ==
    /\ key_changes # <<>>
    /\ \E k \in 2..Len(segmented_analysis) : ~LabelsDiffer(k) /\ ConfidenceJumps(k)

\* C2: for every pair of consecutive segments (k-1, k) whose labels differ
\* and whose confidences differ by more than the threshold exactly one
\* event is emitted, at segment k's start_time, from segment k-1's key to
\* segment k's key, and none for any other pair nor for the first segment;
\* the reference key and confidence are those of the last segment emitted
C2_EventForEveryKeyChange ==
    /\ \A k \in 2..Len(segmented_analysis) :
          IF LabelsDiffer(k) /\ ConfidenceJumps(k)
          THEN /\ Cardinality(EventsAt(k)) = 1
               /\ \A e \in EventsAt(k) :
                     /\ key_changes[e].from_key
                            = segmented_analysis[k - 1].tonalidade_segmento
                     /\ key_changes[e].to_key
                            = segmented_analysis[k].tonalidade_segmento
          ELSE EventsAt(k) = {}
    /\ segmented_analysis # <<>> => EventsAt(1) = {}
    /\ segmented_analysis # <<>> =>
          /\ previous_key
                = segmented_analysis[Len(segmented_analysis)].tonalidade_segmento
          /\ previous_confidence
                = segmented_analysis[Len(segmented_analysis)].confianca_tonalidade
    /\ segmented_analysis = <<>> => (previous_key = None /\ key_changes = <<>>)

\* a finished scan in which one change of label came with an event and
\* another, its confidence change within the threshold, came without
C2_Witness ==
    /\ scan_pc = "returned"
    /\ \E k \in 2..Len(segmented_analysis) :
          LabelsDiffer(k) /\ ConfidenceJumps(k) /\ Cardinality(EventsAt(k)) = 1
    /\ \E k \in 2..Len(segmented_analysis) :
          LabelsDiffer(k) /\ ~ConfidenceJumps(k) /\ EventsAt(k) = {}

\* C3: the segment list is in strictly increasing start_time order, the
\* event list in non-decreasing time order, and every event's time is the
\* start_time of an emitted segment other than the first
C3_ListsOrderedByTime ==
    /\ \A k \in 2..Len(segmented_analysis) :
          segmented_analysis[k - 1].start_time < segmented_analysis[k].start_time
    /\ \A e \in 2..Len(key_changes) : key_changes[e - 1].time <= key_changes[e].time
    /\ \A e \in 1..Len(key_changes) :
          \E k \in 2..Len(segmented_analysis) :
              key_changes[e].time = segmented_analysis[k].start_time

\* three segments and two events have been emitted
C3_Witness ==
    /\ Len(segmented_analysis) = 3
    /\ Len(key_changes) = 2
    /\ key_changes[1].time < key_changes[2].time

\* the segments returned are the full windows of frames_per_segment frames
\* at frames 0, H, 2H, ... of the matrix: floor((T - F) / H) + 1 of them
\* when T >= F; none, with no event and no progression link, when T < F
WindowsAsClaimed ==
    /\ Len(segmented_analysis) =
           (IF NFrames(chroma) >= frames_per_segment
            THEN (NFrames(chroma) - frames_per_segment) \div hop_frames + 1
            ELSE 0)
    /\ \A k \in 1..Len(segmented_analysis) :
          /\ segmented_analysis[k].start_time = (k - 1) * hop_frames * hop_length
          /\ (k - 1) * hop_frames + frames_per_segment <= NFrames(chroma)
          /\ segmented_analysis[k].end_time =
                 Min(((k - 1) * hop_frames + frames_per_segment) * hop_length, duration)
    /\ NFrames(chroma) < frames_per_segment
          => /\ segmented_analysis = <<>>
             /\ key_changes = <<>>
             /\ analyze_harmonic_progressions(segmented_analysis) = <<>>

\* C19: with F frames per segment and a hop of H >= 1 frames, the scan of a
\* matrix of T frames emits the segments starting at frames 0, H, 2H, ...,
\* each a full window of F frames inside the matrix: floor((T - F) / H) + 1
\* segments when T >= F, and no segment, event or progression when T < F
C19_FullWindowsAtEveryHop ==
    (scan_pc \in {"returned", "raised"} /\ hop_frames >= 1)
        => (scan_pc = "returned" /\ WindowsAsClaimed)

\* C20: for every configuration with segment_length > 0, 0 <= overlap_ratio
\* < 1 and at least one frame per segment, the hop the scan computes is at
\* least 1 frame, and the scan does not raise at its range
C20_HopAtLeastOne ==
    (scan_pc # "start" /\ segment_length > 0 /\ overlap_ratio \in 0..3
     /\ frames_per_segment >= 1)
        => hop_frames >= 1

---------------------------------------------------------------------------
(* Properties of the key estimator, under SpecKey *)

\* the normalized profile of the window the estimator was called on
KeyProfile == NormalizeProfile(WeightedMean(key_chroma))

\* the candidates whose correlation with the profile is defined
DefinedCandidates == {c \in 1..24 : ~KeyCorr(KeyProfile, c).nan}

\* the candidates whose correlation equals the returned one
Maximizers ==
    {c \in DefinedCandidates : RealCmp(KeyCorr(KeyProfile, c), key_result.corr) = 0}

\* C5: when all 24 correlations of the window's profile are undefined, the
\* key estimator returns a defined result with confidence 0 and does not raise
C5_AllUndefinedReturnsZero ==
    (key_pc # "start" /\ DefinedCandidates = {})
        => (~key_result.raised /\ key_result.confidence = 0)

\* C8: the key estimator returns the maximum correlation as its confidence
\* and, among the candidates attaining it, the label of the first in scan
\* order (ascending root, major before minor)
C8_MaximumFirstInScanOrder ==
    (key_pc # "start" /\ DefinedCandidates # {})
        => /\ ~key_result.raised
           /\ \A c \in DefinedCandidates :
                 RealCmp(KeyCorr(KeyProfile, c), key_result.corr) <= 0
           /\ Maximizers # {}
           /\ key_result.confidence = ToFixed(key_result.corr)
           /\ key_result.key =
                  KeyLabel(CandRoot(Least(Maximizers)), CandMajor(Least(Maximizers)))

\* the label of the returned key moved up by n semitones, mode kept
Transposed(label, n) ==
    LET c == CHOOSE d \in 1..24 : KeyLabel(CandRoot(d), CandMajor(d)) = label
    IN  KeyLabel((CandRoot(c) + n) % 12, CandMajor(c))

\* C9 as stated: for a non-degenerate profile, shifting every column by N
\* semitones moves the estimated tonic by N and keeps mode and confidence
C9_ShiftMovesTonic ==
    (key_pc = "done" /\ ~key_result.raised)
        => /\ ~key_result_shifted.raised
           /\ key_result_shifted.confidence = key_result.confidence
           /\ key_result_shifted.key = Transposed(key_result.key, key_shift)

\* C9 as amended: for a non-degenerate profile, shifting every column by N
\* semitones keeps the confidence, and moves the tonic by N with the mode
\* kept whenever exactly one candidate attains the maximum correlation
C9_ShiftMovesUniqueTonic ==
    (key_pc = "done" /\ ~key_result.raised)
        => /\ ~key_result_shifted.raised
           /\ key_result_shifted.confidence = key_result.confidence
           /\ RealCmp(key_result_shifted.corr, key_result.corr) = 0
           /\ Cardinality(Maximizers) = 1
                 => key_result_shifted.key = Transposed(key_result.key, key_shift)

\* a C major window shifted by 7 semitones is estimated as G major
C9_Witness ==
    /\ key_pc = "done"
    /\ key_shift = 7
    /\ key_result.key = KeyLabel(0, TRUE)
    /\ key_result_shifted.key = KeyLabel(7, TRUE)
    /\ key_result.confidence > 0
    /\ Cardinality(Maximizers) = 1

---------------------------------------------------------------------------
(* Properties of the chord estimator, under SpecChord *)

\* the weighted moments of the vector the estimator was called on
InputMoments == WeightedMoments(chroma_vector.num)

\* the candidates whose weighted correlation with the input is undefined
UndefinedChordCandidates ==
    {c \in 1..(12 * NChordTypes) : Pearson(InputMoments, ChordCandidates[c].moments).nan}

\* C6: a candidate whose weighted correlation with the input is undefined
\* is never returned, and when it is undefined for all 180 candidates of an
\* input of positive sum, the no-chord sentinel (None, 0) is returned
C6_UndefinedCandidatesExcluded ==
    (chord_pc = "done" /\ Sum(chroma_vector.num) > 0)
        => /\ \A c \in UndefinedChordCandidates :
                 chord_result.chord # ChordCandidates[c].name
           /\ UndefinedChordCandidates = 1..(12 * NChordTypes)
                 => (chord_result.chord = None /\ chord_result.confidence = 0)

\* C7: for every vector whose sum is at most 0 the chord estimator returns
\* the no-chord sentinel: the label None with confidence 0
C7_NoEnergyNoChord ==
    (chord_pc = "done" /\ Sum(chroma_vector.num) <= 0)
        => (chord_result.chord = None /\ chord_result.confidence = 0)

\* the estimator has returned the sentinel for a vector of negative sum
C7_Witness ==
    /\ chord_pc = "done"
    /\ Sum(chroma_vector.num) < 0
    /\ \E p \in PitchClasses : chroma_vector.num[p] > 0
    /\ chord_result.chord = None
    /\ chord_result.confidence = 0

\* C10: on the exact major template rooted at C the chord estimator returns
\* 'C' with confidence 1.0, and the score of (C, major) is strictly greater
\* than the score of each of the 179 other candidates
C10_ExactCMajor ==
    (chord_pc = "done" /\ chroma_vector.num = chord_templates[1].template)
        => /\ chord_result.chord = <<"C">>
           /\ chord_result.confidence = Scale
           /\ RealCmp(chord_result.score, RealOf(1)) = 0
           /\ \A c \in 2..(12 * NChordTypes) :
                 RealCmp(ChordScore(InputMoments, c), ChordScore(InputMoments, 1)) < 0

\* the estimator has answered for the C major template
C10_Witness ==
    /\ chord_pc = "done"
    /\ chroma_vector.num = <<10, 0, 0, 0, 8, 0, 0, 9, 0, 0, 0, 0>>
    /\ chord_result.chord = ChordName(0, major)
    /\ chord_result.confidence = Scale

\* the number of the candidate of the given name in the loop's order
CandidateNamed(name) ==
    CHOOSE c \in 1..(12 * NChordTypes) : ChordCandidates[c].name = name

\* candidate c reaches the greatest score, and no candidate before it does
FirstOfTheBest(xm, c) ==
    After(xm, \A d \in 1..(12 * NChordTypes) :
                 LET order == RealCmp(ChordScore(xm, d), ChordScore(xm, c))
                 IN  IF d < c THEN order < 0 ELSE order <= 0)

\* the candidates other than c that reach the score of c
TiedWith(xm, c) ==
    After(xm, {d \in 1..(12 * NChordTypes) :
                 d # c /\ RealCmp(ChordScore(xm, d), ChordScore(xm, c)) = 0})

\* C21: the chord estimator returns a single candidate, one of greatest
\* score, and among several candidates of that same greatest score the
\* first in the order roots 0..11, and within a root the chord types in the
\* catalog's declared order
C21_FirstOfEqualScoresWins ==
    (chord_pc = "done" /\ Sum(chroma_vector.num) > 0 /\ chord_result.chord # None)
        => /\ \E c \in 1..(12 * NChordTypes) : ChordCandidates[c].name = chord_result.chord
           /\ FirstOfTheBest(InputMoments, CandidateNamed(chord_result.chord))

\* the estimator has answered Csus2 for a root with its fifth, for which
\* Csus4, later in the order, has the same greatest score
C21_Witness ==
    /\ chord_pc = "done"
    /\ chroma_vector.num = <<10, 0, 0, 0, 0, 0, 0, 9, 0, 0, 0, 0>>
    /\ chord_result.chord = <<"C", "s", "u", "s", "2">>
    /\ TiedWith(InputMoments, CandidateNamed(chord_result.chord))
           = {CandidateNamed(<<"C", "s", "u", "s", "4">>)}

---------------------------------------------------------------------------
(* Properties of the pipeline, under SpecPipe *)

\* the raw matrix is well formed: at least one frame, no entry below zero
WellFormed ==
    /\ NFrames(raw_chroma) >= 1
    /\ \A j \in 1..NFrames(raw_chroma) : \A p \in PitchClasses : raw_chroma.cols[j][p] >= 0

\* the keys of a full report
ReportKeys ==
    {"tonalidade_global", "confianca_tonalidade", "duracao",
     "acordes_globais_detectados", "analise_segmentada", "mudancas_tonalidade",
     "estrutura_musical", "progressoes_harmonicas"}

\* C4: for every well-formed chroma input, silent and constant matrices
\* included, the pipeline as __init__ configures it returns a full report
\* and never the error outcome {'erro': ...}
C4_WellFormedInputGivesReport ==
    (pipe_pc = "done" /\ WellFormed /\ DefaultConfig)
        => DOMAIN report = ReportKeys

\* C14: no step of the analysis changes the matrix it was given (the
\* caller's matrix at any time, the smoothed copy once it is made) nor the
\* analyzer's stored configuration
C14_ArgumentsAndConfigurationKept ==
    [][/\ raw_chroma' = raw_chroma
       /\ pipe_pc # "start" => chroma' = chroma
       /\ configVars' = configVars]_vars

\* a full report has been returned, every operation has run on a non-empty
\* matrix, and the caller's matrix and its smoothed copy are as they were
C14_Witness ==
    /\ pipe_pc = "done"
    /\ DOMAIN report = ReportKeys
    /\ Len(segmented_analysis) >= 2
    /\ global_chords # <<>>
    /\ NFrames(raw_chroma) = MaxFrames
    /\ chroma = smooth_chroma(raw_chroma, 5)
    /\ chroma # raw_chroma


---------------------------------------------------------------------------
(* Properties of the single calls, under SpecCalls *)

\* the call is one of the two chord scans
IsChordScan ==
    call_op \in {"detect_chords_in_segment_enhanced", "detect_chords_global_enhanced"}

\* the window size of the chord scan called
CallWindowSize == IF call_op = "detect_chords_in_segment_enhanced" THEN 11 ELSE 22

\* what the chord estimator answers for each window of the scan called
WindowEstimates ==
    [k \in 1..RangeLen(NFrames(call_arg), CallWindowSize \div 2) |->
        detect_chord_in_window_enhanced(
            ColumnMean(ScanWindow(call_arg, CallWindowSize, k)))]

\* the windows of estimates est whose best match is chord c with a
\* confidence above the threshold
WindowsAbove(est, c) ==
    {k \in DOMAIN est :
        est[k].chord = c /\ Exceeds(est[k].confidence, min_chord_confidence)}

\* the estimator named a chord for every window of positive energy, and
\* every name listed has a window above the threshold
ListedWereAbove(est) ==
    After(est,
          /\ \A k \in DOMAIN est :
                Sum(ColumnMean(ScanWindow(call_arg, CallWindowSize, k)).num) > 0
                    => Truthy(est[k].chord)
          /\ \A r \in DOMAIN call_result : WindowsAbove(est, call_result[r]) # {})

\* some listed chord, and some window whose best match, not above the
\* threshold, is not listed
OneListedOneRejected(est) ==
    After(est,
          /\ call_result # <<>>
          /\ \E k \in DOMAIN est :
                /\ Truthy(est[k].chord)
                /\ ~Exceeds(est[k].confidence, min_chord_confidence)
                /\ \A r \in DOMAIN call_result : call_result[r] # est[k].chord)

\* C11: the chord estimator names its best match whatever the score (for
\* every window of positive energy), and every chord name in the list of a
\* chord scan was the estimator's best match with a confidence strictly
\* above min_chord_confidence in at least one window, so that a chord never
\* above it in any window is never listed
C11_ThresholdInAggregators ==
    (call_pc = "returned" /\ IsChordScan)
        => ListedWereAbove(WindowEstimates)

\* a scan that listed one chord and left out another, which the estimator
\* named for a window with a confidence not above the threshold
C11_Witness ==
    /\ call_pc = "returned"
    /\ IsChordScan
    /\ OneListedOneRejected(WindowEstimates)

\* the sum of the estimator's confidence over the first k windows of est
\* whose best match is chord c
RECURSIVE SummedConfidence(_, _, _)
SummedConfidence(est, c, k) ==
    IF k = 0 THEN 0
    ELSE (IF est[k].chord = c THEN est[k].confidence ELSE 0)
         + SummedConfidence(est, c, k - 1)

\* the list returned has no name twice, at most 4 names (8 for the global
\* scan), and is in descending order of the sums over all windows
ListAsClaimed(est) ==
    After(est,
          /\ \A r, q \in DOMAIN call_result : r # q => call_result[r] # call_result[q]
          /\ Len(call_result) <= (IF call_op = "detect_chords_in_segment_enhanced"
                                  THEN 4 ELSE 8)
          /\ \A r \in 1..(Len(call_result) - 1) :
                SummedConfidence(est, call_result[r], Len(est))
                    >= SummedConfidence(est, call_result[r + 1], Len(est)))

\* C22: the chord list of a scan holds no name twice, at most 4 names (the
\* global list at most 8), and is in descending order of summed confidence,
\* the summed confidence of a chord being the sum of the estimator's
\* confidence over all the windows of the scan in which it was the best match
C22_ListOrderedBySummedConfidence ==
    (call_pc = "returned" /\ IsChordScan)
        => ListAsClaimed(WindowEstimates)

\* the number of full 44-frame blocks at 50% overlap in a matrix of n
\* frames: the starts 0, 22, 44, ... with start + 44 <= n
FullBlocks(n) == Cardinality({k \in 0..n : k % 22 = 0 /\ k + 44 <= n})

\* C12: for every matrix that holds fewer than 4 full blocks,
\* analyze_musical_structure returns n_sections 0, no sections and
\* structure_confidence 0, without raising and without calling KMeans
C12_FewBlocksNoStructure ==
    (call_op = "analyze_musical_structure" /\ call_pc # "start"
     /\ FullBlocks(NFrames(call_arg)) < 4)
        => /\ call_pc = "returned"
           /\ call_result.n_sections = 0
           /\ call_result.sections = <<>>
           /\ call_result.structure_confidence = 0
           /\ kmeans_calls = 0

\* the call has returned for a matrix of exactly 3 full blocks
C12_Witness ==
    /\ call_op = "analyze_musical_structure"
    /\ call_pc = "returned"
    /\ FullBlocks(NFrames(call_arg)) = 3
    /\ call_result = NoStructure
    /\ kmeans_calls = 0


---------------------------------------------------------------------------
(* Properties of two calls of the segment scan, under SpecTwice *)

\* C13: a second call of the segment scan with the same chroma matrix and
\* configuration ends as the first one did, and returns the same Segment
\* list and the same KeyChangeEvent list
C13_SecondRunIdentical ==
    (earlier_run # <<>> /\ scan_pc \in {"returned", "raised"})
        => /\ scan_pc = earlier_run[1].outcome
           /\ scan_pc = "returned"
                 => /\ segmented_analysis = earlier_run[1].segmented_analysis
                    /\ key_changes = earlier_run[1].key_changes

\* the second call has returned three segments and an event, its last
\* segment in another key than its first
C13_Witness ==
    /\ earlier_run # <<>>
    /\ scan_pc = "returned"
    /\ Len(segmented_analysis) = 3
    /\ key_changes # <<>>
    /\ segmented_analysis[3].tonalidade_segmento
           # segmented_analysis[1].tonalidade_segmento


\* the smoothing call has returned a matrix of the shape of its argument
SameShape ==
    /\ call_pc = "returned"
    /\ NFrames(call_result) = NFrames(call_arg)
    /\ \A j \in 1..NFrames(call_result) : Len(call_result.cols[j]) = 12

\* the frames of the argument inside the window of call_size frames centred
\* on frame j
FramesInWindow(j) ==
    {k \in 1..NFrames(call_arg) : Abs(k - j) <= (call_size - 1) \div 2}

\* the sum of row p of the argument over the frames S
RECURSIVE RowSumOver(_, _)
RowSumOver(S, p) ==
    IF S = {} THEN 0 ELSE call_arg.cols[Least(S)][p] + RowSumOver(S \ {Least(S)}, p)

\* C15: smooth_chroma with an odd window returns a matrix of the same shape
\* in which each cell is the mean of the frames of its row that exist
\* inside the window centred on it, nothing padded or reflected entering
C15_MeanOverExistingFrames ==
    (call_op = "smooth_chroma" /\ call_pc = "returned" /\ call_size % 2 = 1)
        => /\ SameShape
           /\ \A j \in 1..NFrames(call_arg) : \A p \in PitchClasses :
                 call_result.cols[j][p] * Cardinality(FramesInWindow(j)) * call_arg.den
                     = RowSumOver(FramesInWindow(j), p) * call_result.den

\* C16: smooth_chroma never fails: for a window size below 1 or above the
\* number of frames it still returns a matrix of the same shape
C16_SmoothNeverFails ==
    (call_op = "smooth_chroma" /\ call_pc # "start") => SameShape

\* C17: smoothing a single-frame matrix with an odd window size returns a
\* matrix equal to the input
C17_SingleFrameUnchanged ==
    (call_op = "smooth_chroma" /\ call_pc = "returned"
     /\ NFrames(call_arg) = 1 /\ call_size % 2 = 1)
        => /\ SameShape
           /\ \A p \in PitchClasses :
                 call_result.cols[1][p] * call_arg.den
                     = call_arg.cols[1][p] * call_result.den

\* a single frame of positive energy has been smoothed with a window of 5
C17_Witness ==
    /\ call_op = "smooth_chroma"
    /\ call_pc = "returned"
    /\ NFrames(call_arg) = 1
    /\ call_size = 5
    /\ Sum(call_arg.cols[1]) > 0
    /\ call_result.den = 5 * call_arg.den


\* n * den times the deviation of frame j of row p of the argument from
\* the mean of the row, squared
SquaredDeviation(p, j) ==
    LET n == NFrames(call_arg)
        d == n * call_arg.cols[j][p] - ColumnSum(call_arg.cols, p, n)
    IN  d * d

\* 12 * n^3 * den^2 times the mean over the 12 rows of the variance of each
\* row across the frames of the argument
RECURSIVE SquaredDeviations(_, _)
SquaredDeviations(p, j) ==
    IF p = 0 THEN 0
    ELSE IF j = 0 THEN SquaredDeviations(p - 1, NFrames(call_arg))
    ELSE SquaredDeviation(p, j) + SquaredDeviations(p, j - 1)

\* 12 * n^3 * den^2, the unit of SquaredDeviations
DeviationUnit ==
    12 * NFrames(call_arg) * NFrames(call_arg) * NFrames(call_arg)
       * call_arg.den * call_arg.den

\* C18: calculate_harmonic_stability returns a value in [0, 1] equal to 1
\* minus the mean over the 12 rows of each row's variance across the
\* frames, clamped to [0, 1]; a window of identical columns has stability 1
C18_StabilityIsClampedVariance ==
    (call_op = "calculate_harmonic_stability" /\ call_pc = "returned")
        => LET total == SquaredDeviations(12, NFrames(call_arg))
               value == call_result.num * NFrames(call_arg)
               one   == call_result.den * NFrames(call_arg)
           IN  /\ call_result.den > 0
               /\ 0 <= call_result.num /\ call_result.num <= call_result.den
               /\ one = DeviationUnit
               /\ value = (IF total > DeviationUnit THEN 0 ELSE DeviationUnit - total)
               /\ (\A j \in 1..NFrames(call_arg) : call_arg.cols[j] = call_arg.cols[1])
                     => call_result.num = call_result.den

\* a window whose stability lies strictly between 0 and 1
C18_Witness ==
    /\ call_op = "calculate_harmonic_stability"
    /\ call_pc = "returned"
    /\ 0 < call_result.num
    /\ call_result.num < call_result.den

\* C27: the structure clusterer builds one feature vector for every block
\* start i * 22 at which a full block of 44 frames fits inside the matrix
\* (i * 22 + 44 <= T), the block that ends exactly at the last frame
\* included, so that KMeans is called as soon as 4 full blocks fit
C27_VectorForEveryFullBlock ==
    (call_op = "analyze_musical_structure" /\ call_pc = "returned")
        => /\ NFeatureVectors(call_arg) = FullBlocks(NFrames(call_arg))
           /\ FullBlocks(NFrames(call_arg)) >= 4 => kmeans_calls = 1

---------------------------------------------------------------------------
(* Properties of the progression calls, under SpecProg *)

\* the loop numbers of the candidates to which the chord estimator gives
\* the label
LabelCandidates(label) ==
    {c \in 1..(12 * NChordTypes) : ChordName(ChordRoot(c), ChordType(c).chord_type) = label}

\* C23: for every label the chord estimator can produce (a root name
\* followed by nothing or by one of the 14 quality suffixes), the stripping
\* of classify_progression yields exactly the bare root name
C23_StrippingYieldsBareRoot ==
    (prog_op = "classify_progression" /\ prog_pc = "returned")
        => \A k \in DOMAIN prog_chords1 :
              \A c \in LabelCandidates(prog_chords1[k]) :
                 StripSuffix(prog_chords1[k]) = note_names[ChordRoot(c) + 1]

\* the pair (chords1[a], chords2[b]) hits the table
Hits(a, b) == InTable(<<StripSuffix(prog_chords1[a]), StripSuffix(prog_chords2[b])>>)

\* C24: classify_progression returns the table label of the first pair that
\* hits the table, the from-list in the outer loop and the to-list in the
\* inner one, and the fallback label exactly when no pair hits the table
C24_FirstHitInLoopOrder ==
    (prog_op = "classify_progression" /\ prog_pc = "returned")
        => IF \E a \in DOMAIN prog_chords1, b \in DOMAIN prog_chords2 : Hits(a, b)
           THEN /\ prog_result # "Progressao personalizada"
                /\ \E a \in DOMAIN prog_chords1, b \in DOMAIN prog_chords2 :
                      /\ Hits(a, b)
                      /\ \A c \in DOMAIN prog_chords1, d \in DOMAIN prog_chords2 :
                            Hits(c, d) => (c > a \/ (c = a /\ d >= b))
                      /\ prog_result = Lookup(<<StripSuffix(prog_chords1[a]),
                                                StripSuffix(prog_chords2[b])>>)
           ELSE prog_result = "Progressao personalizada"

\* of (C, G) to (C, F) the answer is I-IV for the pair (C, F), although the
\* pair (G, C), later in the loop order, hits the table too
C24_Witness ==
    /\ prog_op = "classify_progression"
    /\ prog_pc = "returned"
    /\ prog_chords1 = << <<"C">>, <<"G">> >>
    /\ prog_chords2 = << <<"C">>, <<"F">> >>
    /\ Hits(2, 1)
    /\ prog_result = "I-IV"

\* C25: classify_progression never returns vi-IV or vi-I: no stripped root
\* holds the letter m, and the results are I-IV, I-V, IV-V, V-I and the
\* fallback label only
C25_NeverFromTheSixthDegree ==
    (prog_op = "classify_progression" /\ prog_pc = "returned")
        => /\ prog_result \in {"I-IV", "I-V", "IV-V", "V-I", "Progressao personalizada"}
           /\ \A k \in DOMAIN prog_chords1 :
                 \A j \in DOMAIN StripSuffix(prog_chords1[k]) :
                    StripSuffix(prog_chords1[k])[j] # "m"

\* the fallback label has been returned for Am to F, a pair of the table
C25_Witness ==
    /\ prog_op = "classify_progression"
    /\ prog_pc = "returned"
    /\ prog_chords1 = << <<"A", "m">> >>
    /\ prog_chords2 = << <<"F">> >>
    /\ InTable(<<prog_chords1[1], prog_chords2[1]>>)
    /\ prog_result = "Progressao personalizada"

\* the adjacent pairs (k, k + 1) of the segment list whose chord lists are
\* both non-empty
LinkedPairs ==
    {k \in 1..(Len(prog_segments) - 1) :
        /\ prog_segments[k].acordes_segmento # <<>>
        /\ prog_segments[k + 1].acordes_segmento # <<>>}

\* C26: analyze_harmonic_progressions emits one link for each adjacent pair
\* of segments whose chord lists are both non-empty and none for any other
\* pair, in segment order, with the start_time of the first segment, the
\* end_time of the second and the two chord lists; fewer than 2 segments
\* yield no link
C26_OneLinkPerChordedPair ==
    (prog_op = "analyze_harmonic_progressions" /\ prog_pc = "returned")
        => /\ Len(prog_result) = Cardinality(LinkedPairs)
           /\ \A j \in DOMAIN prog_result :
                 \E k \in LinkedPairs :
                    /\ Cardinality({q \in LinkedPairs : q < k}) = j - 1
                    /\ prog_result[j].start_time = prog_segments[k].start_time
                    /\ prog_result[j].end_time = prog_segments[k + 1].end_time
                    /\ prog_result[j].from_chords = prog_segments[k].acordes_segmento
                    /\ prog_result[j].to_chords = prog_segments[k + 1].acordes_segmento
           /\ Len(prog_segments) < 2 => prog_result = <<>>

\* of three segments, the third without chords: one link, from the start
\* of the first segment to the end of the second
C26_Witness ==
    /\ prog_op = "analyze_harmonic_progressions"
    /\ prog_pc = "returned"
    /\ Len(prog_segments) = 3
    /\ LinkedPairs = {1}
    /\ Len(prog_result) = 1
    /\ prog_result[1].start_time = prog_segments[1].start_time
    /\ prog_result[1].end_time = prog_segments[2].end_time
    /\ prog_result[1].end_time < prog_segments[3].end_time

---------------------------------------------------------------------------
(* Properties of the upload handler, under SpecUpload *)

\* C29: on every path of the handler that has created a temporary file,
\* the file has been deleted by the time the handler returns its response
C29_TemporaryFileDeleted ==
    (upload_pc = "returned" /\ temp_file # <<>>) => temp_file[1] \notin temp_dir

---------------------------------------------------------------------------
(* Properties of the range responses, under SpecServe *)

\* a Range header that starts with 'bytes=' was given
BytesRangeGiven ==
    Truthy(range_header) /\ StartsWith(range_header, <<"b", "y", "t", "e", "s", "=">>)

\* the text of the k-th bound of the header: what stands between the '=' and
\* the first '-' (k = 1), between the first '-' and the second (k = 2)
BoundText(k) ==
    LET parts == split(strip(split(range_header, "=")[2]), "-")
    IN  IF Len(parts) >= k THEN parts[k] ELSE <<>>

\* the header asks for a range that is not in the file: a bound that is
\* not a number, a start after the end, an end at or after the file's size
RangeNotSatisfiable ==
    LET asked(k, default) == IF BoundText(k) = <<>> THEN default ELSE int(BoundText(k)).value
    IN  \/ \E k \in 1..2 : BoundText(k) # <<>> /\ int(BoundText(k)).raised
        \/ asked(1, 0) > asked(2, file_size - 1)
        \/ asked(2, file_size - 1) >= file_size

\* what holds of a response once made, of its body while and after it is
\* iterated, and of the error
ResponseAsClaimed ==
    /\ serve_pc \in {"response", "loop", "done"}
          => /\ 0 <= start /\ start <= end /\ end <= file_size - 1
             /\ ~int(content_length).raised
             /\ int(content_length).value = end - start + 1
             /\ status_code = (IF BytesRangeGiven THEN 206 ELSE 200)
    /\ serve_pc = "loop"
          => /\ Len(body) <= end - start + 1
             /\ body = SubSeq(file_bytes, start + 1, start + Len(body))
    /\ serve_pc = "done" => body = SubSeq(file_bytes, start + 1, end + 1)
    /\ serve_pc = "raised" => (status_code = 416 /\ body = <<>>)
    /\ (serve_pc # "start" /\ BytesRangeGiven /\ RangeNotSatisfiable)
          => serve_pc = "raised"

\* C30: for a non-empty file of size N every response has
\* 0 <= start <= end <= N - 1, a Content-Length of end - start + 1 and the
\* status 206 exactly when a Range header starting with 'bytes=' was given
\* (200 otherwise); its body iterator yields exactly the bytes start..end
\* and then terminates (every pass of its loop that does not end it lowers
\* the count of the bytes that remain, which is never negative); a header
\* with start > end, end >= N or a bound that is not a number yields the
\* error 416 and no body
C30_RangeResponse ==
    /\ []ResponseAsClaimed
    /\ [][(serve_pc = "loop" /\ serve_pc' = "loop")
             => (0 <= remaining' /\ remaining' < remaining)]_vars

\* the bytes 1..3 of a file of 4 bytes have been served with status 206 in
\* two chunks
C30_Witness ==
    /\ serve_pc = "done"
    /\ file_size = 4
    /\ chunk_size = 2
    /\ BytesRangeGiven
    /\ BoundText(1) = <<"1">> /\ BoundText(2) = <<"3">>
    /\ status_code = 206
    /\ content_length = <<"3">>
    /\ body = <<file_bytes[2], file_bytes[3], file_bytes[4]>>

=============================================================================
